---- MODULE Spec2Model ----
(***************************************************************************)
(* picture-metadata: reorganisation of a photo collection into a          *)
(* date-based layout.  The model follows the processor (natural sort,     *)
(* timestamp pre-allocation, worker pool), the timestamp reconciler and   *)
(* the helpers they call.                                                  *)
(*                                                                         *)
(* Strings are sequences of one-character strings; Code gives the byte    *)
(* value of a character, so that Go's bytewise string comparison can be   *)
(* computed.                                                               *)
(***************************************************************************)
EXTENDS Integers, Sequences, FiniteSets, TLC

(***************************************************************************)
(* Bounds of the model.                                                    *)
(***************************************************************************)
\* Largest number of files of a list that is sorted or pre-allocated on its own.
MaxFiles == 3

\* Largest number of candidate files of a whole run.
MaxRunFiles == 2

\* Largest number of workers of a run.
MaxWorkers == 2

\* Largest number of operations of a run that fail (connection, listing,
\* directory creation, transfer, metadata update).
MaxFaults == 1

(***************************************************************************)
(* The paths of the model.  What the pure functions give on them is       *)
(* computed once, in the tables below.                                     *)
(***************************************************************************)
\* For the sort on its own: runs of digits of every kind.
SortPaths ==
    {
     <<"i", "m", "g", "1", ".", "j", "p", "g">>,
     <<"i", "m", "g", "2", ".", "j", "p", "g">>,
     <<"i", "m", "g", "1", "0", ".", "j", "p", "g">>,
     <<"i", "m", "g", "0", "1", ".", "j", "p", "g">>,
     <<"i", "m", "g", ".", "j", "p", "g">>,
     <<"i", "m", "g", "2", "b", ".", "j", "p", "g">>,
     <<"i", "m", "g", "9", "2", "2", "3", "3", "7", "2", "0", "3", "6", "8", "5", "4", "7", "7", "5", "8", "0", "7", ".", "j", "p", "g">>,
     <<"i", "m", "g", "9", "2", "2", "3", "3", "7", "2", "0", "3", "6", "8", "5", "4", "7", "7", "5", "8", "0", "8", ".", "j", "p", "g">>,
     <<"i", "m", "g", "1", "0", "0", "0", "0", "0", "0", "0", "0", "0", "0", "0", "0", "0", "0", "0", "0", "0", "0", "0", ".", "j", "p", "g">>
    }

\* For the pre-pass on its own: dates that follow or contradict the order of
\* the names, a time of day beyond 24 hours, a day beyond the end of its
\* month, a video, a name without a date.
PreallocPaths ==
    {
     <<"1", "_", "2", "0", "2", "4", "_", "0", "6", ".", "j", "p", "g">>,
     <<"2", "0", "2", "4", "-", "0", "1", "-", "0", "2", " ", "2", "5", ".", "0", "0", ".", "0", "0", ".", "j", "p", "g">>,
     <<"2", "0", "2", "4", "_", "0", "1", "_", "a", ".", "j", "p", "g">>,
     <<"2", "0", "2", "4", "_", "0", "1", "_", "b", ".", "j", "p", "g">>,
     <<"2", "0", "2", "4", "_", "0", "1", "_", "c", ".", "j", "p", "g">>,
     <<"2", "0", "2", "4", "_", "0", "2", "_", "3", "1", ".", "m", "p", "4">>,
     <<"p", "h", "o", "t", "o", "_", "f", "i", "n", "a", "l", ".", "j", "p", "g">>
    }

\* Config.SourceDir and Config.DestDir of the runs of the model.
SourceDir == <<"i", "n">>

DestDir == <<"o", "u", "t">>

\* For a whole run: two names with a date, one base name without a date in two
\* folders, a file that is no media file, a file in a Synology metadata folder.
RunPaths ==
    {
     <<"i", "n", "/", "2", "0", "2", "4", "_", "0", "1", "_", "a", ".", "j", "p", "g">>,
     <<"i", "n", "/", "2", "0", "2", "4", "_", "0", "1", "_", "b", ".", "j", "p", "g">>,
     <<"i", "n", "/", "a", "/", "p", "h", "o", "t", "o", "_", "f", "i", "n", "a", "l", ".", "j", "p", "g">>,
     <<"i", "n", "/", "b", "/", "p", "h", "o", "t", "o", "_", "f", "i", "n", "a", "l", ".", "j", "p", "g">>,
     <<"i", "n", "/", "n", "o", "t", "e", "s", ".", "t", "x", "t">>,
     <<"i", "n", "/", "@", "e", "a", "D", "i", "r", "/", "2", "0", "2", "4", "_", "0", "1", "_", "c", ".", "j", "p", "g">>
    }

KnownPaths == SortPaths \cup PreallocPaths \cup RunPaths

(***************************************************************************)
(* Characters and strings.                                                 *)
(***************************************************************************)
Code ==
    " " :> 32 @@ "-" :> 45 @@ "." :> 46 @@ "/" :> 47 @@ "0" :> 48 @@ "1" :> 49 @@ "2" :> 50
    @@ "3" :> 51 @@ "4" :> 52 @@ "5" :> 53 @@ "6" :> 54 @@ "7" :> 55 @@ "8" :> 56 @@ "9" :>
    57 @@ ":" :> 58 @@ "@" :> 64 @@ "A" :> 65 @@ "B" :> 66 @@ "C" :> 67 @@ "D" :> 68 @@ "E" :> 69 @@ "F"
    :> 70 @@ "G" :> 71 @@ "H" :> 72 @@ "I" :> 73 @@ "J" :> 74 @@ "K" :> 75 @@ "L" :> 76 @@
    "M" :> 77 @@ "N" :> 78 @@ "O" :> 79 @@ "P" :> 80 @@ "Q" :> 81 @@ "R" :> 82 @@ "S" :> 83
    @@ "T" :> 84 @@ "U" :> 85 @@ "V" :> 86 @@ "W" :> 87 @@ "X" :> 88 @@ "Y" :> 89 @@ "Z" :>
    90 @@ "\\" :> 92 @@ "_" :> 95 @@ "a" :> 97 @@ "b" :> 98 @@ "c" :> 99 @@ "d" :> 100 @@
    "e" :> 101 @@ "f" :> 102 @@ "g" :> 103 @@ "h" :> 104 @@ "i" :> 105 @@ "j" :> 106 @@ "k"
    :> 107 @@ "l" :> 108 @@ "m" :> 109 @@ "n" :> 110 @@ "o" :> 111 @@ "p" :> 112 @@ "q" :>
    113 @@ "r" :> 114 @@ "s" :> 115 @@ "t" :> 116 @@ "u" :> 117 @@ "v" :> 118 @@ "w" :> 119
    @@ "x" :> 120 @@ "y" :> 121 @@ "z" :> 122

Digits == {"0", "1", "2", "3", "4", "5", "6", "7", "8", "9"}

IsDigit(c) == c \in Digits

Min(a, b) == IF a < b THEN a ELSE b

\* Go's < on strings: bytewise lexicographic, a proper prefix first.
StrLess(a, b) ==
    LET n == Min(Len(a), Len(b))
        D == {i \in 1..n : a[i] # b[i]}
    IN  IF D = {}
        THEN Len(a) < Len(b)
        ELSE LET k == CHOOSE i \in D : \A j \in D : i <= j
             IN  Code[a[k]] < Code[b[k]]

\* The text of a run of digits without its leading zeros: two runs of digits
\* have the same numeric value exactly when these texts are equal.
RECURSIVE StripZeros(_)
StripZeros(s) ==
    IF Len(s) > 1 /\ s[1] = "0" THEN StripZeros(Tail(s)) ELSE s

\* The order of the numeric values of two runs of digits (zeros stripped).
NumLess(x, y) ==
    \/ Len(x) < Len(y)
    \/ Len(x) = Len(y) /\ StrLess(x, y)

\* math.MaxInt64 = 9223372036854775807, as a run of digits.
MaxInt64Digits ==
    <<"9", "2", "2", "3", "3", "7", "2", "0", "3", "6", "8", "5", "4", "7", "7", "5", "8", "0", "7">>

\* strconv.Atoi: succeeds on a non-empty run of digits whose value fits an
\* int (64 bits); num is the value, held as its digits without leading zeros.
Atoi(s) ==
    LET digits == s # <<>> /\ \A i \in 1..Len(s) : IsDigit(s[i])
        num    == StripZeros(s)
    IN  [ok  |-> digits /\ ~NumLess(MaxInt64Digits, num),
         num |-> IF digits THEN num ELSE <<>>]

\* The value of a run of at most nine digits, as an integer.
RECURSIVE IntOf(_)
IntOf(s) ==
    IF s = <<>> THEN 0
    ELSE 10 * IntOf(SubSeq(s, 1, Len(s) - 1)) + (Code[s[Len(s)]] - Code["0"])

\* The decimal digits of n >= 0.
RECURSIVE Itoa(_)
Itoa(n) ==
    LET c == CHOOSE x \in Digits : Code[x] - Code["0"] = n % 10
    IN  IF n < 10 THEN <<c>> ELSE Itoa(n \div 10) \o <<c>>

\* fmt's %0Nd for n >= 0.
RECURSIVE PadLeft(_, _)
PadLeft(s, width) == IF Len(s) >= width THEN s ELSE PadLeft(<<"0">> \o s, width)

Pad2(n) == PadLeft(Itoa(n), 2)
Pad4(n) == PadLeft(Itoa(n), 4)

\* strings.Split(s, sep) for a separator of one character.
RECURSIVE Split(_, _)
Split(s, sep) ==
    LET P == {i \in 1..Len(s) : s[i] = sep}
    IN  IF P = {} THEN <<s>>
        ELSE LET k == CHOOSE i \in P : \A j \in P : i <= j
             IN  <<SubSeq(s, 1, k - 1)>> \o Split(SubSeq(s, k + 1, Len(s)), sep)

(***************************************************************************)
(* time.Time.  A time is an instant (day: days since 1970-01-01 UTC, sec:  *)
(* second of that day) and the offset of its location east of UTC in      *)
(* seconds; the calendar fields are those of the instant shifted by the   *)
(* offset.  Seconds are kept apart from days so that every number stays   *)
(* within TLC's integers.                                                  *)
(***************************************************************************)
\* F(v), with v computed once.
Once(v, F(_)) == CHOOSE r \in {F(x) : x \in {v}} : TRUE

SecondsPerDay == 24 * 60 * 60

\* The day number of the proleptic Gregorian date y-m-d; a day beyond the end
\* of the month runs on into the next one, as time.Date normalises it.
DaysFromCivil(y, m, d) ==
    LET yy  == IF m <= 2 THEN y - 1 ELSE y
        era == yy \div 400
        yoe == yy - era * 400
        mp  == (m + 9) % 12
        doy == (153 * mp + 2) \div 5 + d - 1
        doe == yoe * 365 + yoe \div 4 - yoe \div 100 + doy
    IN  era * 146097 + doe - 719468

\* <<year, month, day>> of a day number.
CivilFromDays(z0) ==
    Once(z0 + 719468, LAMBDA z :
    Once(z \div 146097, LAMBDA era :
    Once(z - era * 146097, LAMBDA doe :
    Once((doe - doe \div 1460 + doe \div 36524 - doe \div 146096) \div 365, LAMBDA yoe :
    Once(doe - (365 * yoe + yoe \div 4 - yoe \div 100), LAMBDA doy :
    Once((5 * doy + 2) \div 153, LAMBDA mp :
    Once(IF mp < 10 THEN mp + 3 ELSE mp - 9, LAMBDA m :
         <<yoe + era * 400 + (IF m <= 2 THEN 1 ELSE 0), m,
           doy - (153 * mp + 2) \div 5 + 1>>)))))))

\* time.Date(y, m, d, hour, min, sec, 0, loc) for a location off seconds east.
TimeDate(y, m, d, hour, min, sec, off) ==
    LET s == hour * 3600 + min * 60 + sec - off
    IN  [day |-> DaysFromCivil(y, m, d) + s \div SecondsPerDay,
         sec |-> s % SecondsPerDay,
         off |-> off]

\* The zero value of time.Time: January 1, year 1, 00:00:00 UTC.
ZeroTime == TimeDate(1, 1, 1, 0, 0, 0, 0)

\* t.IsZero()
IsZero(t) == t.day = ZeroTime.day /\ t.sec = 0

\* t.After(u): the instants are compared, the locations play no part.
After(t, u) == t.day > u.day \/ (t.day = u.day /\ t.sec > u.sec)

\* t.Add(1 * time.Second)
AddSecond(t) ==
    [day |-> t.day + (t.sec + 1) \div SecondsPerDay,
     sec |-> (t.sec + 1) % SecondsPerDay,
     off |-> t.off]

\* <<year, month, day, hour, minute, second>> as t's location shows them:
\* t.Year(), t.Month(), t.Day() and what t.Format prints.
Clock(t) ==
    LET s == t.sec + t.off
        c == CivilFromDays(t.day + s \div SecondsPerDay)
        r == s % SecondsPerDay
    IN  <<c[1], c[2], c[3], r \div 3600, (r % 3600) \div 60, r % 60>>

Year(t) == Clock(t)[1]

\* t.Format("2006:01:02 15:04:05"), the text handed to exiftool.
FormatExif(t) ==
    LET c == Clock(t)
    IN  Pad4(c[1]) \o <<":">> \o Pad2(c[2]) \o <<":">> \o Pad2(c[3]) \o <<" ">>
        \o Pad2(c[4]) \o <<":">> \o Pad2(c[5]) \o <<":">> \o Pad2(c[6])

(***************************************************************************)
(* DateInfo: the date read from a file name.  Time is the text HH:MM:SS,  *)
(* or empty.                                                               *)
(***************************************************************************)
DateInfo(year, month, day, time) ==
    [Year |-> year, Month |-> month, Day |-> day, Time |-> time]

\* (d *DateInfo) ToTime
ToTime(d) ==
    Once(Split(d.Time, ":"), LAMBDA parts :
         IF d.Time # <<>> /\ Len(parts) = 3
         THEN TimeDate(d.Year, d.Month, d.Day,
                       IF Atoi(parts[1]).ok THEN IntOf(parts[1]) ELSE 0,
                       IF Atoi(parts[2]).ok THEN IntOf(parts[2]) ELSE 0,
                       IF Atoi(parts[3]).ok THEN IntOf(parts[3]) ELSE 0, 0)
         ELSE TimeDate(d.Year, d.Month, d.Day, 12, 0, 0, 0))

(***************************************************************************)
(* Paths.                                                                  *)
(***************************************************************************)
\* The index of the last c in s, 0 when there is none: strings.LastIndex + 1.
LastIndex(s, c) ==
    LET P == {i \in 1..Len(s) : s[i] = c}
    IN  IF P = {} THEN 0 ELSE CHOOSE i \in P : \A j \in P : j <= i

\* filepath.Base of a path that does not end in a separator.
Base(path) == SubSeq(path, LastIndex(path, "/") + 1, Len(path))

\* filepath.Ext: the suffix that starts at the last dot of the last element.
Ext(path) ==
    Once(Base(path), LAMBDA b :
    Once(LastIndex(b, "."), LAMBDA k :
         IF k = 0 THEN <<>> ELSE SubSeq(b, k, Len(b))))

HasSuffix(s, suffix) ==
    Len(suffix) <= Len(s) /\ SubSeq(s, Len(s) - Len(suffix) + 1, Len(s)) = suffix

HasPrefix(s, prefix) ==
    Len(prefix) <= Len(s) /\ SubSeq(s, 1, Len(prefix)) = prefix

\* strings.TrimSuffix
TrimSuffix(s, suffix) ==
    IF HasSuffix(s, suffix) THEN SubSeq(s, 1, Len(s) - Len(suffix)) ELSE s

(***************************************************************************)
(* ParseDateFromFilename.  Each rule is a regular expression; MatchN(s, i) *)
(* says that rule N matches s from position i on, and the rule's match is *)
(* its leftmost one (FindStringSubmatch).                                  *)
(***************************************************************************)
Whitespace == {" ", "\t", "\n", "\f", "\r"}

Letters ==
    {"A", "B", "C", "D", "E", "F", "G", "H", "I", "J", "K", "L", "M", "N", "O", "P", "Q",
     "R", "S", "T", "U", "V", "W", "X", "Y", "Z", "a", "b", "c", "d", "e", "f", "g", "h",
     "i", "j", "k", "l", "m", "n", "o", "p", "q", "r", "s", "t", "u", "v", "w", "x", "y",
     "z"}

\* \d{n} at position i
Dig(s, i, n) == i >= 1 /\ i + n - 1 <= Len(s) /\ \A j \in i..(i + n - 1) : IsDigit(s[j])

\* a literal text at position i
Lit(s, i, text) ==
    i >= 1 /\ i + Len(text) - 1 <= Len(s) /\ SubSeq(s, i, i + Len(text) - 1) = text

\* one character of a set at position i
In(s, i, set) == i >= 1 /\ i <= Len(s) /\ s[i] \in set

\* (?:\D|$) at position i
NonDigitOrEnd(s, i) == i > Len(s) \/ ~IsDigit(s[i])

\* The position after the whitespace that starts at i: \s+ takes all of it.
RECURSIVE SkipSpace(_, _)
SkipSpace(s, i) == IF In(s, i, Whitespace) THEN SkipSpace(s, i + 1) ELSE i

\* The value of the n digits at position i (strconv.Atoi of a submatch).
Num(s, i, n) == IntOf(SubSeq(s, i, i + n - 1))

\* The leftmost position at which M matches, 0 when it matches nowhere.
Leftmost(s, M(_, _)) ==
    LET P == {i \in 1..(Len(s) + 1) : M(s, i)}
    IN  IF P = {} THEN 0 ELSE CHOOSE i \in P : \A j \in P : i <= j

NoMatch == [matched |-> FALSE, info |-> DateInfo(0, 0, 0, <<>>)]

Matched(info) == [matched |-> TRUE, info |-> info]

\* Century with the cutover at 50 instead of above it.
Century_FromFifty(yy) == IF yy >= 50 THEN 1900 + yy ELSE 2000 + yy

\* Heuristic of the YYMMDD and YYMM rules: if YY > 50, assume 19XX, else 20XX.
Century(yy) == IF yy > 50 THEN 1900 + yy ELSE 2000 + yy

\* (\d{4})-(\d{2})-(\d{2})\s+(\d{2})\.(\d{2})\.(\d{2})
Match1(s, i) ==
    /\ Dig(s, i, 4) /\ Lit(s, i + 4, <<"-">>) /\ Dig(s, i + 5, 2)
    /\ Lit(s, i + 7, <<"-">>) /\ Dig(s, i + 8, 2) /\ In(s, i + 10, Whitespace)
    /\ LET j == SkipSpace(s, i + 10)
       IN  /\ Dig(s, j, 2) /\ Lit(s, j + 2, <<".">>) /\ Dig(s, j + 3, 2)
           /\ Lit(s, j + 5, <<".">>) /\ Dig(s, j + 6, 2)

Rule1(s) ==
    LET i == Leftmost(s, Match1)
        j == SkipSpace(s, i + 10)
    IN  IF i = 0 THEN NoMatch
        ELSE Matched(DateInfo(Num(s, i, 4), Num(s, i + 5, 2), Num(s, i + 8, 2),
                 Pad2(Num(s, j, 2)) \o <<":">> \o Pad2(Num(s, j + 3, 2)) \o <<":">>
                     \o Pad2(Num(s, j + 6, 2))))

\* (\d{4})-(\d{2})-(\d{2}) and (\d{4})_(\d{2})_(\d{2})
MatchYMD(s, i, sep) ==
    /\ Dig(s, i, 4) /\ Lit(s, i + 4, <<sep>>) /\ Dig(s, i + 5, 2)
    /\ Lit(s, i + 7, <<sep>>) /\ Dig(s, i + 8, 2)

Match2(s, i) == MatchYMD(s, i, "-")

Match3(s, i) == MatchYMD(s, i, "_")

RuleYMD(s, i) ==
    IF i = 0 THEN NoMatch
    ELSE Matched(DateInfo(Num(s, i, 4), Num(s, i + 5, 2), Num(s, i + 8, 2), <<>>))

Rule2(s) == RuleYMD(s, Leftmost(s, Match2))

Rule3(s) == RuleYMD(s, Leftmost(s, Match3))

\* ^(\d{4})(\d{2})(\d{2})(?:\D|$)
Rule4(s) ==
    IF Dig(s, 1, 8) /\ NonDigitOrEnd(s, 9)
    THEN Matched(DateInfo(Num(s, 1, 4), Num(s, 5, 2), Num(s, 7, 2), <<>>))
    ELSE NoMatch

\* (\d{4})_(\d{2})(?:_|\D|$)
Match5(s, i) ==
    Dig(s, i, 4) /\ Lit(s, i + 4, <<"_">>) /\ Dig(s, i + 5, 2) /\ NonDigitOrEnd(s, i + 7)

Rule5(s) ==
    LET i == Leftmost(s, Match5)
    IN  IF i = 0 THEN NoMatch
        ELSE Matched(DateInfo(Num(s, i, 4), Num(s, i + 5, 2), 1, <<>>))

\* ^(\d{2})(\d{2})(\d{2})(?:\D|$)
Rule6(s) ==
    IF Dig(s, 1, 6) /\ NonDigitOrEnd(s, 7)
    THEN Matched(DateInfo(Century(Num(s, 1, 2)), Num(s, 3, 2), Num(s, 5, 2), <<>>))
    ELSE NoMatch

\* ^(\d{2})(\d{2})(?:\D|$)
Rule7(s) ==
    IF Dig(s, 1, 4) /\ NonDigitOrEnd(s, 5)
    THEN Matched(DateInfo(Century(Num(s, 1, 2)), Num(s, 3, 2), 1, <<>>))
    ELSE NoMatch

\* [/\\](\d{4})(?:_|/|\\)
Match8(s, i) ==
    In(s, i, {"/", "\\"}) /\ Dig(s, i + 1, 4) /\ In(s, i + 5, {"_", "/", "\\"})

Rule8(s) ==
    LET i == Leftmost(s, Match8)
    IN  IF i = 0 THEN NoMatch ELSE Matched(DateInfo(Num(s, i + 1, 4), 1, 1, <<>>))

\* (\d{4})\s+and\s+before
Match9(s, i) ==
    /\ Dig(s, i, 4) /\ In(s, i + 4, Whitespace)
    /\ LET j == SkipSpace(s, i + 4)
       IN  /\ Lit(s, j, <<"a", "n", "d">>) /\ In(s, j + 3, Whitespace)
           /\ Lit(s, SkipSpace(s, j + 3), <<"b", "e", "f", "o", "r", "e">>)

Rule9(s) ==
    LET i == Leftmost(s, Match9)
    IN  IF i = 0 THEN NoMatch ELSE Matched(DateInfo(Num(s, i, 4), 1, 1, <<>>))

\* (?:^|[/\\])(\d{4})[A-Za-z_]: at the start of the text the year may stand
\* first; elsewhere a separator stands before it.
Match10Start(s) == Dig(s, 1, 4) /\ In(s, 5, Letters \cup {"_"})

Match10(s, i) ==
    In(s, i, {"/", "\\"}) /\ Dig(s, i + 1, 4) /\ In(s, i + 5, Letters \cup {"_"})

Rule10(s) ==
    LET i == Leftmost(s, Match10)
    IN  IF Match10Start(s) THEN Matched(DateInfo(Num(s, 1, 4), 1, 1, <<>>))
        ELSE IF i = 0 THEN NoMatch
        ELSE Matched(DateInfo(Num(s, i + 1, 4), 1, 1, <<>>))

\* The rules in the order of the patterns table.
Rule(k, s) ==
    CASE k = 1 -> Rule1(s) [] k = 2 -> Rule2(s) [] k = 3 -> Rule3(s)
      [] k = 4 -> Rule4(s) [] k = 5 -> Rule5(s) [] k = 6 -> Rule6(s)
      [] k = 7 -> Rule7(s) [] k = 8 -> Rule8(s) [] k = 9 -> Rule9(s)
      [] k = 10 -> Rule10(s)

NumRules == 10

\* ValidDate with the range of the year only.
ValidDate_YearOnly(info) == ~(info.Year < 1800 \/ info.Year > 2100)

\* The validation of a match: year, month and day ranges.
ValidDate(info) ==
    /\ ~(info.Year < 1800 \/ info.Year > 2100)
    /\ ~(info.Month < 1 \/ info.Month > 12)
    /\ ~(info.Day < 1 \/ info.Day > 31)

\* ParseDateFromFilename with the full path searched before the name.
ParseDateFromFilename_PathFirst(filename) ==
    LET base == Base(filename)
        name == TrimSuffix(base, Ext(base))
        searchStr(n) == IF n <= NumRules THEN filename ELSE name
        try(n) == Rule(((n - 1) % NumRules) + 1, searchStr(n))
        V == {n \in 1..(2 * NumRules) : try(n).matched /\ ValidDate(try(n).info)}
    IN  IF V = {} THEN [err |-> TRUE, info |-> NoMatch.info]
        ELSE [err |-> FALSE, info |-> try(CHOOSE n \in V : \A m \in V : n <= m).info]

\* ParseDateFromFilename: [err, info].  The file name without its extension
\* is searched first, then the full path; the first rule whose match is valid
\* gives the date.
ParseDateFromFilename(filename) ==
    LET base == Base(filename)
        name == TrimSuffix(base, Ext(base))
        searchStr(n) == IF n <= NumRules THEN name ELSE filename
        try(n) == Rule(((n - 1) % NumRules) + 1, searchStr(n))
        V == {n \in 1..(2 * NumRules) : try(n).matched /\ ValidDate(try(n).info)}
    IN  IF V = {} THEN [err |-> TRUE, info |-> NoMatch.info]
        ELSE [err |-> FALSE, info |-> try(CHOOSE n \in V : \A m \in V : n <= m).info]

(***************************************************************************)
(* The reconciler.  A read of the embedded capture time (ReadExifData for *)
(* images, ReadTimestampWithExiftool for videos) is a record: has tells   *)
(* whether a timestamp was read, ts is the timestamp.                      *)
(***************************************************************************)
NoTimestamp == [has |-> FALSE, ts |-> ZeroTime]

Embedded(t) == [has |-> TRUE, ts |-> t]

\* DetermineCorrectTimestamp trusting the embedded timestamp only when month
\* and year both match.
DetermineCorrectTimestamp_MonthToo(video, read, parsedDate) ==
    LET hasTimestamp == IF video THEN read.has ELSE read.has /\ ~IsZero(read.ts)
    IN  IF hasTimestamp /\ Year(read.ts) = parsedDate.Year
           /\ Clock(read.ts)[2] = parsedDate.Month
        THEN <<read.ts, TRUE>>
        ELSE <<ToTime(parsedDate), FALSE>>

\* DetermineCorrectTimestamp, from the read of the file's metadata on:
\* <<timestamp, isFromEXIF>>.  video is isVideoFile(sourcePath); for an image
\* read.has says that ReadExifData returned no error.
DetermineCorrectTimestamp(video, read, parsedDate) ==
    LET hasTimestamp == IF video THEN read.has ELSE read.has /\ ~IsZero(read.ts)
    IN  IF ~hasTimestamp THEN <<ToTime(parsedDate), FALSE>>
        ELSE IF Year(read.ts) = parsedDate.Year THEN <<read.ts, TRUE>>
        ELSE <<ToTime(parsedDate), FALSE>>

(***************************************************************************)
(* Natural sort.                                                           *)
(***************************************************************************)
\* The end of the maximal run (digits, or non-digits) that starts at s[1].
RECURSIVE RunEnd(_, _)
RunEnd(s, j) ==
    IF j < Len(s) /\ IsDigit(s[j + 1]) = IsDigit(s[1]) THEN RunEnd(s, j + 1) ELSE j

\* regexp (\d+|\D+), FindAllString(s, -1): the maximal runs of s, in order.
RECURSIVE FindAllRuns(_)
FindAllRuns(s) ==
    IF s = <<>> THEN <<>>
    ELSE LET j == RunEnd(s, 1)
         IN  <<SubSeq(s, 1, j)>> \o FindAllRuns(SubSeq(s, j + 1, Len(s)))

naturalLess(a, b) ==
    LET aParts == FindAllRuns(a)
        bParts == FindAllRuns(b)
        n      == Min(Len(aParts), Len(bParts))
        bothNum(idx) == Atoi(aParts[idx]).ok /\ Atoi(bParts[idx]).ok
        \* the indices at which the loop returns
        differs(idx) ==
            IF bothNum(idx)
            THEN Atoi(aParts[idx]).num # Atoi(bParts[idx]).num
            ELSE aParts[idx] # bParts[idx]
        D == {idx \in 1..n : differs(idx)}
    IN  IF D = {}
        THEN Len(aParts) < Len(bParts)
        ELSE LET idx == CHOOSE i \in D : \A j \in D : i <= j
             IN  IF bothNum(idx)
                 THEN NumLess(Atoi(aParts[idx]).num, Atoi(bParts[idx]).num)
                 ELSE StrLess(aParts[idx], bParts[idx])

(***************************************************************************)
(* Names at the destination.                                               *)
(***************************************************************************)
\* The concatenation of the strings of a sequence, sep between them.
RECURSIVE JoinWith(_, _)
JoinWith(parts, sep) ==
    IF parts = <<>> THEN <<>>
    ELSE IF Len(parts) = 1 THEN parts[1]
    ELSE parts[1] \o sep \o JoinWith(Tail(parts), sep)

\* filepath.Join of clean elements: the empty ones are left out.
Join(elems) == JoinWith(SelectSeq(elems, LAMBDA e : e # <<>>), <<"/">>)

\* filepath.Dir of a clean path.
Dir(path) ==
    LET k == LastIndex(path, "/")
    IN  IF k = 0 THEN <<".">> ELSE IF k = 1 THEN <<"/">> ELSE SubSeq(path, 1, k - 1)

\* strings.ReplaceAll(s, old, new) for an old of one character.
ReplaceAll(s, old, new) ==
    JoinWith([i \in 1..Len(s) |-> IF s[i] = old THEN new ELSE <<s[i]>>], <<>>)

RECURSIVE TrimLeft(_, _)
TrimLeft(s, cutset) ==
    IF s # <<>> /\ s[1] \in cutset THEN TrimLeft(Tail(s), cutset) ELSE s

RECURSIVE TrimRight(_, _)
TrimRight(s, cutset) ==
    IF s # <<>> /\ s[Len(s)] \in cutset
    THEN TrimRight(SubSeq(s, 1, Len(s) - 1), cutset)
    ELSE s

\* strings.Trim
Trim(s, cutset) == TrimRight(TrimLeft(s, cutset), cutset)

\* strings.TrimPrefix
TrimPrefix(s, prefix) ==
    IF HasPrefix(s, prefix) THEN SubSeq(s, Len(prefix) + 1, Len(s)) ELSE s

\* strings.Contains
Contains(s, text) == \E i \in 1..Len(s) : Lit(s, i, text)

\* _+ replaced by _
RECURSIVE SqueezeUnderscores(_)
SqueezeUnderscores(s) ==
    IF Len(s) < 2 THEN s
    ELSE IF s[1] = "_" /\ s[2] = "_" THEN SqueezeUnderscores(Tail(s))
    ELSE <<s[1]>> \o SqueezeUnderscores(Tail(s))

\* \d{4}-\d{4} removed wherever it stands, leftmost first
RECURSIVE RemoveYearRanges(_)
RemoveYearRanges(s) ==
    IF s = <<>> THEN <<>>
    ELSE IF Dig(s, 1, 4) /\ Lit(s, 5, <<"-">>) /\ Dig(s, 6, 4)
         THEN RemoveYearRanges(SubSeq(s, 10, Len(s)))
         ELSE <<s[1]>> \o RemoveYearRanges(Tail(s))

\* \s+and\s+(before|after)$ from position i on
MatchAndBefore(s, i) ==
    /\ In(s, i, Whitespace)
    /\ LET a == SkipSpace(s, i)
           b == SkipSpace(s, a + 3)
       IN  /\ Lit(s, a, <<"a", "n", "d">>)
           /\ b > a + 3
           /\ \/ Lit(s, b, <<"b", "e", "f", "o", "r", "e">>) /\ b + 6 = Len(s) + 1
              \/ Lit(s, b, <<"a", "f", "t", "e", "r">>) /\ b + 5 = Len(s) + 1

\* s without its first n characters when cond holds
DropIf(s, cond, n) == IF cond THEN SubSeq(s, n + 1, Len(s)) ELSE s

Alnum == Letters \cup Digits \cup {"_"}

DateSeps == {"-", "_"}

\* ^\d{4}[-_]\d{2}[-_]\d{2} removed
DropYMD(d) ==
    DropIf(d, Dig(d, 1, 4) /\ In(d, 5, DateSeps) /\ Dig(d, 6, 2) /\ In(d, 8, DateSeps)
              /\ Dig(d, 9, 2), 10)

\* ^\d{8} removed
DropDigits8(d) == DropIf(d, Dig(d, 1, 8), 8)

\* ^\d{6} removed
DropDigits6(d) == DropIf(d, Dig(d, 1, 6), 6)

\* ^\d{4}[-_] removed
DropYearSep(d) == DropIf(d, Dig(d, 1, 4) /\ In(d, 5, DateSeps), 5)

\* ^\d{4}\s+ removed
DropYearSpace(d) == DropIf(d, Dig(d, 1, 4) /\ In(d, 5, Whitespace), SkipSpace(d, 5) - 1)

\* \s+and\s+(before|after)$ removed
DropAndBefore(d) ==
    Once(Leftmost(d, MatchAndBefore), LAMBDA k : IF k = 0 THEN d ELSE SubSeq(d, 1, k - 1))

\* strings.Trim(dir, "_- ")
TrimSeparators(d) == Trim(d, {"_", "-", " "})

\* strings.ReplaceAll(dir, " ", "_")
SpacesToUnderscores(d) == ReplaceAll(d, " ", <<"_">>)

\* [^a-zA-Z0-9_] replaced by _
SpecialToUnderscores(d) == [i \in 1..Len(d) |-> IF d[i] \in Alnum THEN d[i] ELSE "_"]

\* strings.Trim(dir, "_")
TrimUnderscores(d) == Trim(d, {"_"})

\* The steps of cleanDirectoryName, in their order; step k works on the result
\* of step k - 1.
CleanStep(k, d) ==
    CASE k = 1 -> DropYMD(d)
      [] k = 2 -> DropDigits8(d)
      [] k = 3 -> DropDigits6(d)
      [] k = 4 -> DropYearSep(d)
      [] k = 5 -> DropYearSpace(d)
      [] k = 6 -> RemoveYearRanges(d)
      [] k = 7 -> DropAndBefore(d)
      [] k = 8 -> TrimSeparators(d)
      [] k = 9 -> SpacesToUnderscores(d)
      [] k = 10 -> SqueezeUnderscores(d)
      [] k = 11 -> SpecialToUnderscores(d)
      [] k = 12 -> SqueezeUnderscores(d)
      [] k = 13 -> TrimUnderscores(d)

RECURSIVE CleanUpTo(_, _)
CleanUpTo(k, dir) ==
    IF k = 0 THEN dir ELSE Once(CleanUpTo(k - 1, dir), LAMBDA d : CleanStep(k, d))

cleanDirectoryName(dir) == CleanUpTo(13, dir)

\* The path below the source root.
RelativePath(full, root) ==
    IF HasPrefix(full, root) THEN TrimPrefix(TrimPrefix(full, root), <<"/">>) ELSE full

\* The cleaned names of the directories of dirPath that are left, joined.
JoinCleaned(dirPath) ==
    LET parts   == IF dirPath = <<".">> \/ dirPath = <<>> THEN <<>> ELSE Split(dirPath, "/")
        cleaned == [i \in 1..Len(parts) |->
                       IF parts[i] = <<>> \/ parts[i] = <<".">>
                       THEN <<>>
                       ELSE cleanDirectoryName(parts[i])]
    IN  JoinWith(SelectSeq(cleaned, LAMBDA c : c # <<>>), <<"_">>)

ExtractDirectoryContext(fullPath, sourceRoot) ==
    Once(Dir(RelativePath(TrimRight(fullPath, {"/"}), TrimRight(sourceRoot, {"/"}))),
         JoinCleaned)

\* ^\d{4}[-_]?\d{0,2}[-_]?\d{0,2}_? removed: each optional part takes what
\* it can.
DropDateLike(s) ==
    LET opt(i, set) == IF In(s, i, set) THEN i + 1 ELSE i
        upTo2(i)    == IF Dig(s, i, 2) THEN i + 2 ELSE IF Dig(s, i, 1) THEN i + 1 ELSE i
    IN  IF Dig(s, 1, 4)
        THEN SubSeq(s, opt(upTo2(opt(upTo2(opt(5, DateSeps)), DateSeps)), {"_"}), Len(s))
        ELSE s

\* ^\d{6}_? removed
DropDigits6Underscore(s) == DropIf(s, Dig(s, 1, 6), IF In(s, 7, {"_"}) THEN 7 ELSE 6)

\* strings.TrimSpace, then spaces replaced by _, then "photo" for nothing
CleanDescription(s) ==
    Once(ReplaceAll(Trim(s, Whitespace), " ", <<"_">>),
         LAMBDA t : IF t = <<>> THEN <<"p", "h", "o", "t", "o">> ELSE t)

\* StandardizedFilename with the time of day in every name that has one.
StandardizedFilename_NoonToo(d, description, ext) ==
    LET desc == Once(Once(Once(description, DropDateLike), DropDigits6Underscore),
                     CleanDescription)
        date == Pad4(d.Year) \o <<"-">> \o Pad2(d.Month) \o <<"-">> \o Pad2(d.Day)
    IN  IF d.Time # <<>>
        THEN date \o <<"_">> \o ReplaceAll(d.Time, ":", <<>>) \o <<"_">> \o desc \o ext
        ELSE date \o <<"_">> \o desc \o ext

\* DateInfo.StandardizedFilename
StandardizedFilename(d, description, ext) ==
    LET desc == Once(Once(Once(description, DropDateLike), DropDigits6Underscore),
                     CleanDescription)
        date == Pad4(d.Year) \o <<"-">> \o Pad2(d.Month) \o <<"-">> \o Pad2(d.Day)
    IN  IF d.Time # <<>> /\ d.Time # <<"1", "2", ":", "0", "0", ":", "0", "0">>
        THEN date \o <<"_">> \o ReplaceAll(d.Time, ":", <<>>) \o <<"_">> \o desc \o ext
        ELSE date \o <<"_">> \o desc \o ext

\* DateInfo.GetDirectoryPath
GetDirectoryPath(d) == Pad4(d.Year) \o <<"/">> \o Pad4(d.Year) \o <<"-">> \o Pad2(d.Month)

(***************************************************************************)
(* Media files.                                                            *)
(***************************************************************************)
Upper ==
    {"A", "B", "C", "D", "E", "F", "G", "H", "I", "J", "K", "L", "M", "N", "O", "P", "Q",
     "R", "S", "T", "U", "V", "W", "X", "Y", "Z"}

\* strings.ToLower
ToLower(s) ==
    [i \in 1..Len(s) |->
        IF s[i] \in Upper
        THEN CHOOSE c \in DOMAIN Code : Code[c] = Code[s[i]] + 32
        ELSE s[i]]

imageExts ==
    {
     <<".", "j", "p", "g">>,
     <<".", "j", "p", "e", "g">>,
     <<".", "p", "n", "g">>,
     <<".", "g", "i", "f">>,
     <<".", "b", "m", "p">>,
     <<".", "t", "i", "f", "f">>,
     <<".", "t", "i", "f">>,
     <<".", "h", "e", "i", "c">>,
     <<".", "h", "e", "i", "f">>
    }

videoExts ==
    {
     <<".", "m", "p", "4">>,
     <<".", "m", "o", "v">>,
     <<".", "a", "v", "i">>,
     <<".", "m", "k", "v">>,
     <<".", "m", "4", "v">>,
     <<".", "3", "g", "p">>,
     <<".", "w", "m", "v">>,
     <<".", "f", "l", "v">>,
     <<".", "w", "e", "b", "m">>,
     <<".", "m", "p", "g">>,
     <<".", "m", "p", "e", "g">>,
     <<".", "m", "t", "s">>,
     <<".", "m", "2", "t", "s">>
    }

isVideoFile(filename) == ToLower(Ext(filename)) \in videoExts

isMediaFile(filename) == ToLower(Ext(filename)) \in imageExts \cup videoExts

(***************************************************************************)
(* Tables of the pure functions over the paths of the model.               *)
(***************************************************************************)
\* ParseDateFromFilename(p)
dateOf[p \in KnownPaths] == ParseDateFromFilename(p)

\* isVideoFile(p)
videoOf[p \in KnownPaths] == isVideoFile(p)

\* The paths b with naturalLess(a, b)
lessThan[a \in KnownPaths] == {b \in KnownPaths : naturalLess(a, b)}

\* The sequences that hold the elements of sequence s once each, in any order.
Permutations_(s) ==
    {q \in [1..Len(s) -> {s[i] : i \in 1..Len(s)}] :
        \A i \in 1..Len(s) : \E j \in 1..Len(s) : q[j] = s[i]}

\* sort.Slice(paths, naturalLess).  sort.Slice is not stable: it returns a
\* permutation in which no element is less than one before it, any one of them
\* when several exist; with a comparison that is no strict weak order it
\* returns a permutation without that guarantee.
naturalSort(paths) ==
    LET ordered == {q \in Permutations_(paths) :
                      \A i, j \in 1..Len(q) : i < j => q[i] \notin lessThan[q[j]]}
    IN  IF ordered # {} THEN ordered ELSE Permutations_(paths)

(***************************************************************************)
(* State.                                                                  *)
(***************************************************************************)
VARIABLES
    config,                 \* the Config of the run, and whether exiftool is installed
    files,                  \* the source tree: path -> the capture time embedded in the file
    destFs,                 \* the destination: place -> path -> the file there
    mainPc,                 \* where Process / walkDirectory stands
    imageFiles,             \* the candidate paths, in the order the run holds them
    preIdx,                 \* preallocateTimestamps: the paths handled so far
    lastTimestamp,          \* preallocateTimestamps: the running timestamp
    timestampAssignments,   \* p.timestampAssignments: path -> pre-allocated timestamp
    stats,                  \* p.stats
    statsMutex,             \* p.statsMutex: who holds it
    jobs,                   \* the jobs channel
    jobsClosed,             \* close(jobs) has happened
    results,                \* the results channel
    resultsClosed,          \* close(results) has happened
    workers,                \* per worker goroutine: where it stands and its locals
    faults,                 \* the operations that have failed so far
    preRead,                \* per path, what the read of its metadata answered in the pre-pass
    workerRead,             \* per path, what the read of its metadata answered in the worker
    exifWritten,            \* per path, the timestamps passed to UpdateExifDate for it
    copiedTo,               \* per path, the destination paths it was written to
    increments,             \* per counter, the increments that have been completed
    counted,                \* per path, the counters its worker has incremented for it
    returned,               \* per path, whether the function returned an error for it
    issued,                 \* per path, the transfer issued for it: where to, over a file?
    metaFailed,             \* the paths whose call of UpdateExifDate has failed
    walkErr,                \* the source root could not be listed
    jobsTaken,              \* per path, how often a worker has received it from jobs
    collected,              \* how many results the collecting loop has received
    preallocRuns,           \* how often preallocateTimestamps has been entered
    callArgs,               \* a function called on its own: its arguments
    callResult              \* a function called on its own: <<>>, or <<its result>>

preVars == <<preIdx, lastTimestamp, timestampAssignments, preRead, preallocRuns>>

chanVars == <<jobs, jobsClosed, results, resultsClosed>>

histVars == <<workerRead, exifWritten, copiedTo, increments, counted, returned, issued,
              metaFailed, walkErr, jobsTaken, collected>>

poolVars == <<stats, statsMutex, chanVars, workers, destFs, faults, histVars>>

callVars == <<callArgs, callResult>>

vars == <<config, files, mainPc, imageFiles, preVars, poolVars, callVars>>

runVars == <<config, files, mainPc, imageFiles, preVars, poolVars>>

\* The sequences of at most n distinct elements of S.
DistinctSeqs(S, n) ==
    UNION {{q \in [1..k -> S] : \A i, j \in 1..k : i # j => q[i] # q[j]} : k \in 0..n}

\* The orders in which a listing may give the paths of S.
Listings(S) == {q \in DistinctSeqs(S, Cardinality(S)) : Len(q) = Cardinality(S)}

Range(q) == {q[i] : i \in 1..Len(q)}

\* The position of path p in the sequence q.
IndexOf(q, p) == CHOOSE i \in 1..Len(q) : q[i] = p

(***************************************************************************)
(* Process: configuration, connections, enumeration.                       *)
(***************************************************************************)
\* A function with the value v at k.
Put(f, k, v) == [q \in DOMAIN f \cup {k} |-> IF q = k THEN v ELSE f[q]]

EmptyMap == [q \in {} |-> ZeroTime]

NoConfig == [Workers |-> 0]

\* The Config of a run from a local source with w workers; Exiftool says
\* whether checkExiftoolAvailable finds exiftool.
LocalConfig(w) ==
    [Workers |-> w, DryRun |-> FALSE, FixMetadata |-> FALSE, SkipExisting |-> FALSE,
     SSHHost |-> "", RemoteDest |-> FALSE, DestSSHHost |-> "", Exiftool |-> TRUE]

\* The configurations of the runs of the model.
Configs ==
    {LocalConfig(w) : w \in (-1)..MaxWorkers}
    \cup {[LocalConfig(MaxWorkers) EXCEPT !.DryRun = TRUE],
          [LocalConfig(MaxWorkers) EXCEPT !.SkipExisting = TRUE],
          [LocalConfig(1) EXCEPT !.FixMetadata = TRUE],
          [LocalConfig(1) EXCEPT !.Exiftool = FALSE],
          [LocalConfig(1) EXCEPT !.RemoteDest = TRUE],
          [LocalConfig(1) EXCEPT !.SSHHost = "nas", !.RemoteDest = TRUE],
          [LocalConfig(1) EXCEPT !.RemoteDest = TRUE, !.DestSSHHost = "backup"],
          [LocalConfig(MaxWorkers) EXCEPT !.SSHHost = "nas"],
          [LocalConfig(1) EXCEPT !.SSHHost = "nas", !.RemoteDest = TRUE,
                                 !.DestSSHHost = "nas"],
          [LocalConfig(1) EXCEPT !.SSHHost = "nas", !.RemoteDest = TRUE,
                                 !.DestSSHHost = "backup", !.FixMetadata = TRUE],
          [LocalConfig(1) EXCEPT !.SSHHost = "nas", !.RemoteDest = TRUE,
                                 !.DestSSHHost = "nas", !.SkipExisting = TRUE],
          [LocalConfig(1) EXCEPT !.DryRun = TRUE, !.SkipExisting = TRUE],
          [LocalConfig(1) EXCEPT !.DryRun = TRUE, !.FixMetadata = TRUE],
          [LocalConfig(1) EXCEPT !.DryRun = TRUE, !.SSHHost = "nas", !.RemoteDest = TRUE,
                                 !.DestSSHHost = "nas"],
          [LocalConfig(1) EXCEPT !.DryRun = TRUE, !.SSHHost = "nas", !.RemoteDest = TRUE,
                                 !.DestSSHHost = "nas", !.SkipExisting = TRUE],
          [LocalConfig(1) EXCEPT !.DryRun = TRUE, !.SSHHost = "nas", !.RemoteDest = TRUE,
                                 !.DestSSHHost = "nas", !.FixMetadata = TRUE]}

\* The counters of ProcessStats that the concurrent phase changes.
Counters == {"ProcessedFiles", "SkippedFiles", "ErrorFiles", "MovedFiles", "UpdatedMetadata"}

\* &ProcessStats{}
NoStats ==
    [TotalFiles |-> 0, ProcessedFiles |-> 0, SkippedFiles |-> 0, ErrorFiles |-> 0,
     MovedFiles |-> 0, UpdatedMetadata |-> 0]

\* What an operation that can fail may do now: succeed, or fail as long as
\* the run has had fewer than MaxFaults failures.
Outcomes == IF faults < MaxFaults THEN {TRUE, FALSE} ELSE {TRUE}

\* Whether the walk takes path p as a candidate: a media file outside the
\* @eaDir folders.  The local walk skips the directories whose path holds
\* "@eaDir", the remote one the files whose path holds it.
IsCandidate(p, remote) ==
    /\ isMediaFile(p)
    /\ ~Contains(IF remote THEN p ELSE Dir(p), <<"@", "e", "a", "D", "i", "r">>)

candidate[p \in RunPaths] == [remote \in BOOLEAN |-> IsCandidate(p, remote)]

pathLess[a \in RunPaths] == {b \in RunPaths : StrLess(a, b)}

\* The order in which filepath.Walk visits the files S: lexical.
WalkOrder(S) ==
    CHOOSE q \in Listings(S) : \A i, j \in 1..Len(q) : i < j => q[j] \in pathLess[q[i]]

\* ProcessStart without the check of DestSSHHost.
ProcessStart_NoHostCheck ==
    /\ mainPc = "start"
    /\ \E ok \in IF config.SSHHost # "" THEN Outcomes ELSE {TRUE} :
          /\ faults' = IF ok THEN faults ELSE faults + 1
          /\ mainPc' = IF ok THEN "walk" ELSE "failed"
    /\ UNCHANGED <<config, files, imageFiles, preVars, stats, statsMutex, chanVars, workers,
                   destFs, histVars, callVars>>

\* Process up to the walk: the SSH clients.
ProcessStart ==
    /\ mainPc = "start"
    /\ LET connects == \/ config.SSHHost # ""
                       \/ /\ config.RemoteDest
                          /\ config.DestSSHHost # ""
                          /\ config.DestSSHHost # config.SSHHost
       IN  \E ok \in IF connects THEN Outcomes ELSE {TRUE} :
              /\ faults' = IF ok THEN faults ELSE faults + 1
              /\ mainPc' = IF ~ok \/ (config.RemoteDest /\ config.DestSSHHost = "")
                           THEN "failed"
                           ELSE "walk"
    /\ UNCHANGED <<config, files, imageFiles, preVars, stats, statsMutex, chanVars, workers,
                   destFs, histVars, callVars>>

\* walkLocalDirectory / walkRemoteDirectory: the first pass.  The callback
\* of the local walk logs a path that cannot be accessed and returns nil:
\* that path (a file, or the source root with all there is below it) is left
\* out and the walk goes on.  The remote listing fails as a whole.
Walk ==
    /\ mainPc = "walk"
    /\ LET remote == config.SSHHost # ""
           found  == {p \in DOMAIN files : candidate[p][remote]}
       IN  \E ok \in Outcomes :
              /\ faults' = IF ok THEN faults ELSE faults + 1
              /\ IF remote
                 THEN /\ walkErr' = ~ok
                      /\ IF ok
                         THEN imageFiles' \in Listings(found) /\ mainPc' = "enumerated"
                         ELSE imageFiles' = imageFiles /\ mainPc' = "failed"
                 ELSE /\ mainPc' = "enumerated"
                      /\ IF ok
                         THEN imageFiles' = WalkOrder(found) /\ walkErr' = FALSE
                         ELSE \E lost \in {{p} : p \in found} \cup {DOMAIN files} :
                                 /\ imageFiles' = WalkOrder(found \ lost)
                                 /\ walkErr' = (lost = DOMAIN files)
              /\ stats' = IF mainPc' = "enumerated"
                          THEN [stats EXCEPT !.TotalFiles = Len(imageFiles')]
                          ELSE stats
    /\ UNCHANGED <<config, files, preVars, statsMutex, chanVars, workers, destFs, workerRead,
                   exifWritten, copiedTo, increments, counted, returned, issued, metaFailed,
                   jobsTaken, collected, callVars>>

(***************************************************************************)
(* preallocateTimestamps.                                                  *)
(***************************************************************************)
\* What one read of the metadata of a source file may answer: the capture
\* time the file holds, or nothing (the file cannot be opened, exiftool fails,
\* or, for a remote source, the temporary download fails).
ReadOutcomes(tree, path) == {tree[path], NoTimestamp}

\* AllocateTimestamp with the running timestamp set to every authoritative
\* timestamp, also to an earlier one.
AllocateTimestamp_AlwaysRebase(last, dateInfo, correct) ==
    LET baseDate   == ToTime(dateInfo)
        midnight   == TimeDate(Clock(baseDate)[1], Clock(baseDate)[2], Clock(baseDate)[3],
                               0, 0, 0, baseDate.off)
        sequential == IF IsZero(last) THEN midnight ELSE AddSecond(last)
    IN  IF correct[2] THEN <<correct[1], correct[1]>> ELSE <<sequential, sequential>>

\* AllocateTimestamp with the first synthetic timestamp at the parsed time
\* (noon) instead of midnight.
AllocateTimestamp_SeedAtParsedTime(last, dateInfo, correct) ==
    LET sequential == IF IsZero(last) THEN ToTime(dateInfo) ELSE AddSecond(last)
    IN  IF correct[2]
        THEN <<correct[1], IF After(correct[1], last) THEN correct[1] ELSE last>>
        ELSE <<sequential, sequential>>

\* AllocateTimestamp with every synthetic timestamp at midnight of the file's
\* own parsed date.
AllocateTimestamp_MidnightEach(last, dateInfo, correct) ==
    LET baseDate == ToTime(dateInfo)
        midnight == TimeDate(Clock(baseDate)[1], Clock(baseDate)[2], Clock(baseDate)[3],
                             0, 0, 0, baseDate.off)
    IN  IF correct[2]
        THEN <<correct[1], IF After(correct[1], last) THEN correct[1] ELSE last>>
        ELSE <<midnight, midnight>>

\* AllocateTimestamp with an authoritative timestamp that is not later than
\* lastTimestamp replaced by the next second.
AllocateTimestamp_AuthoritativeInOrder(last, dateInfo, correct) ==
    LET baseDate   == ToTime(dateInfo)
        midnight   == TimeDate(Clock(baseDate)[1], Clock(baseDate)[2], Clock(baseDate)[3],
                               0, 0, 0, baseDate.off)
        sequential == IF IsZero(last) THEN midnight ELSE AddSecond(last)
    IN  IF correct[2] /\ After(correct[1], last)
        THEN <<correct[1], correct[1]>>
        ELSE <<sequential, sequential>>

\* AllocateTimestamp with lastTimestamp left alone by an authoritative
\* timestamp.
AllocateTimestamp_IgnoresAuthoritative(last, dateInfo, correct) ==
    LET baseDate   == ToTime(dateInfo)
        midnight   == TimeDate(Clock(baseDate)[1], Clock(baseDate)[2], Clock(baseDate)[3],
                               0, 0, 0, baseDate.off)
        sequential == IF IsZero(last) THEN midnight ELSE AddSecond(last)
    IN  IF correct[2] THEN <<correct[1], last>> ELSE <<sequential, sequential>>

\* One iteration of the loop for a path with a date: <<finalTimestamp, the new
\* lastTimestamp>>, from the result <<correctTimestamp, isFromEXIF>> of
\* DetermineCorrectTimestamp (or of the parsed date when the download failed).
AllocateTimestamp(last, dateInfo, correct) ==
    LET correctTimestamp == correct[1]
        isFromEXIF       == correct[2]
        midnight         == Once(ToTime(dateInfo), LAMBDA baseDate :
                                 Once(Clock(baseDate), LAMBDA c :
                                      TimeDate(c[1], c[2], c[3], 0, 0, 0, baseDate.off)))
        sequential       == IF IsZero(last) THEN midnight ELSE AddSecond(last)
    IN  IF isFromEXIF
        THEN <<correctTimestamp, IF After(correctTimestamp, last) THEN correctTimestamp ELSE last>>
        ELSE <<sequential, sequential>>

\* The loop body for imageFiles[preIdx + 1].
PreallocateOne ==
    /\ mainPc = "prealloc"
    /\ preIdx < Len(imageFiles)
    /\ \E filePath \in {imageFiles[preIdx + 1]} : \E parsed \in {dateOf[filePath]} :
          IF parsed.err
          THEN UNCHANGED <<lastTimestamp, timestampAssignments, preRead>>
          ELSE \E read \in ReadOutcomes(files, filePath) :
               \E correct \in {DetermineCorrectTimestamp(videoOf[filePath], read,
                                                         parsed.info)} :
               \E alloc \in {AllocateTimestamp(lastTimestamp, parsed.info, correct)} :
                  /\ timestampAssignments' = Put(timestampAssignments, filePath, alloc[1])
                  /\ lastTimestamp' = alloc[2]
                  /\ preRead' = Put(preRead, filePath, read)
    /\ preIdx' = preIdx + 1
    /\ UNCHANGED <<config, files, mainPc, imageFiles, preallocRuns, poolVars, callVars>>

\* The pre-pass returning before its loop has ended.
PreallocateDone_Early ==
    /\ mainPc = "prealloc"
    /\ preIdx < Len(imageFiles)
    /\ mainPc' = "spawn"
    /\ UNCHANGED <<config, files, imageFiles, preVars, poolVars, callVars>>

\* The end of the loop: preallocateTimestamps returns.
PreallocateDone ==
    /\ mainPc = "prealloc"
    /\ preIdx = Len(imageFiles)
    /\ mainPc' = "spawn"
    /\ UNCHANGED <<config, files, imageFiles, preVars, poolVars, callVars>>

(***************************************************************************)
(* walkLocalDirectory / walkRemoteDirectory up to the pre-pass.            *)
(***************************************************************************)
\* naturalSort(imageFiles)
SortFiles ==
    /\ mainPc = "enumerated"
    /\ imageFiles' \in naturalSort(imageFiles)
    /\ mainPc' = "sorted"
    /\ UNCHANGED <<config, files, preVars, poolVars, callVars>>

\* p.preallocateTimestamps(imageFiles) is entered: var lastTimestamp time.Time
PreallocateStart ==
    /\ mainPc = "sorted"
    /\ mainPc' = "prealloc"
    /\ preIdx' = 0
    /\ lastTimestamp' = ZeroTime
    /\ preallocRuns' = preallocRuns + 1
    /\ UNCHANGED <<config, files, imageFiles, timestampAssignments, preRead, poolVars,
                   callVars>>

(***************************************************************************)
(* The worker pool of walkLocalDirectory / walkRemoteDirectory.            *)
(***************************************************************************)
\* processPhoto / processRemotePhoto: the destination path of a file with a
\* date, in a run whose Config has the source root sourceDir.
DestPathFrom(sourceDir, filePath, dateInfo) ==
    LET base        == SubSeq(filePath, LastIndex(filePath, "/") + 1, Len(filePath))
        ext         == SubSeq(filePath, LastIndex(filePath, "."), Len(filePath))
        name        == TrimSuffix(base, ext)
        dirContext  == ExtractDirectoryContext(filePath, sourceDir)
        desc        == IF dirContext # <<>> THEN dirContext \o <<"_">> \o name ELSE name
        newFilename == StandardizedFilename(dateInfo, desc, ext)
    IN  Join(<<DestDir, GetDirectoryPath(dateInfo), newFilename>>)

\* The destination path in the runs from SourceDir.
DestPath(filePath, dateInfo) == DestPathFrom(SourceDir, filePath, dateInfo)

destOf[p \in RunPaths] ==
    Once(dateOf[p], LAMBDA d : IF d.err THEN <<>> ELSE DestPath(p, d.info))

\* The k-th name the unknown bucket offers for a base name: the name itself,
\* then name_1.ext, name_2.ext, ...
UnknownName(base, k) ==
    LET unknown == <<"u", "n", "k", "n", "o", "w", "n">>
    IN  IF k = 0
        THEN Join(<<DestDir, unknown, base>>)
        ELSE Once(Ext(base), LAMBDA ext :
             Once(TrimSuffix(base, ext), LAMBDA nameWithoutExt :
                  Join(<<DestDir, unknown, nameWithoutExt \o <<"_">> \o Itoa(k) \o ext>>)))

\* The loop over os.Stat / FileExists with the counter starting at 2.
FirstFree_FromTwo(taken, base) ==
    LET free(k) == UnknownName(base, IF k = 0 THEN 0 ELSE k + 1) \notin taken
        k == CHOOSE n \in 0..Cardinality(taken) : free(n) /\ \A j \in 0..(n - 1) : ~free(j)
    IN  UnknownName(base, IF k = 0 THEN 0 ELSE k + 1)

\* The loop over os.Stat / FileExists: the first of the names of the base
\* name that is not among the paths taken.  No file is removed during a run,
\* so the loop ends with what it would find in the state of its last check.
FirstFree(taken, base) ==
    LET free(k) == UnknownName(base, k) \notin taken
    IN  Once(CHOOSE n \in 0..Cardinality(taken) : free(n) /\ \A j \in 0..(n - 1) : ~free(j),
             LAMBDA k : UnknownName(base, k))

\* GetSequentialTimestamp without the map: the base timestamp comes back.
GetSequentialTimestamp_NoMap(assignments, filePath, baseTimestamp) == baseTimestamp

\* GetSequentialTimestamp
GetSequentialTimestamp(assignments, filePath, baseTimestamp) ==
    IF filePath \in DOMAIN assignments THEN assignments[filePath] ELSE baseTimestamp

\* A worker that holds no file.
IdleWorker ==
    [pc |-> "off", path |-> <<>>, date |-> NoMatch.info, dest |-> <<>>, ts |-> ZeroTime,
     meta |-> NoTimestamp, reg |-> 0, todo |-> <<>>, after |-> ""]

\* The place of the destination: processRemotePhoto honours RemoteDest,
\* processPhoto writes to the local file system.
Place == IF config.SSHHost # "" /\ config.RemoteDest THEN "remote" ELSE "local"

Exists(path) == path \in DOMAIN destFs[Place]

\* The destination with the file at path (whole, or what a failed copy left).
WriteFile(path, src, meta, whole) ==
    [destFs EXCEPT ![Place] = Put(@, path, [src |-> src, meta |-> meta, whole |-> whole])]

\* mainPc while the goroutines of the pool run.
Collecting == {"collect", "progress"}

\* StartWorkers with one worker started whatever the count.
StartWorkers_AtLeastOne ==
    /\ mainPc = "spawn"
    /\ workers' = [w \in 1..MaxWorkers |->
                      IF w <= config.Workers \/ w = 1 THEN [IdleWorker EXCEPT !.pc = "idle"]
                      ELSE IdleWorker]
    /\ mainPc' = "collect"
    /\ UNCHANGED <<config, files, imageFiles, preVars, stats, statsMutex, chanVars, destFs,
                   faults, histVars, callVars>>

\* The workers, the sending goroutine and the closing goroutine are started.
StartWorkers ==
    /\ mainPc = "spawn"
    /\ workers' = [w \in 1..MaxWorkers |->
                      IF w <= config.Workers THEN [IdleWorker EXCEPT !.pc = "idle"]
                      ELSE IdleWorker]
    /\ mainPc' = "collect"
    /\ UNCHANGED <<config, files, imageFiles, preVars, stats, statsMutex, chanVars, destFs,
                   faults, histVars, callVars>>

\* SendJobs with every path sent twice.
SendJobs_Twice ==
    /\ mainPc \in Collecting
    /\ ~jobsClosed
    /\ jobs' = jobs \o imageFiles \o imageFiles
    /\ jobsClosed' = TRUE
    /\ UNCHANGED <<config, files, mainPc, imageFiles, preVars, stats, statsMutex, results,
                   resultsClosed, workers, destFs, faults, histVars, callVars>>

\* The sending goroutine: every path is sent (the channel has room for all
\* of them), then close(jobs).
SendJobs ==
    /\ mainPc \in Collecting
    /\ ~jobsClosed
    /\ jobs' = jobs \o imageFiles
    /\ jobsClosed' = TRUE
    /\ UNCHANGED <<config, files, mainPc, imageFiles, preVars, stats, statsMutex, results,
                   resultsClosed, workers, destFs, faults, histVars, callVars>>

\* CloseResults without wg.Wait(): the channel is closed while workers run.
CloseResults_NoWait ==
    /\ mainPc \in Collecting
    /\ ~resultsClosed
    /\ resultsClosed' = TRUE
    /\ UNCHANGED <<config, files, mainPc, imageFiles, preVars, stats, statsMutex, jobs,
                   jobsClosed, results, workers, destFs, faults, histVars, callVars>>

\* wg.Wait(); close(results)
CloseResults ==
    /\ mainPc \in Collecting
    /\ ~resultsClosed
    /\ \A w \in 1..MaxWorkers : workers[w].pc \in {"off", "exited"}
    /\ resultsClosed' = TRUE
    /\ UNCHANGED <<config, files, mainPc, imageFiles, preVars, stats, statsMutex, jobs,
                   jobsClosed, results, workers, destFs, faults, histVars, callVars>>

\* for err := range results: one result; an error is counted under the lock;
\* printProgress is entered and takes the lock.
CollectResult ==
    /\ mainPc = "collect"
    /\ results # <<>>
    /\ statsMutex = "none"
    /\ results' = Tail(results)
    /\ IF Head(results)
       THEN /\ stats' = [stats EXCEPT !.ErrorFiles = @ + 1]
            /\ increments' = [increments EXCEPT !.ErrorFiles = @ + 1]
       ELSE UNCHANGED <<stats, increments>>
    /\ statsMutex' = "main"
    /\ mainPc' = "progress"
    /\ collected' = collected + 1
    /\ UNCHANGED <<config, files, imageFiles, preVars, jobs, jobsClosed, resultsClosed,
                   workers, destFs, faults, workerRead, exifWritten, copiedTo, counted,
                   returned, issued, metaFailed, walkErr, jobsTaken,
                   callVars>>

\* printProgress: the counters are read, the lock is released.
PrintProgress ==
    /\ mainPc = "progress"
    /\ statsMutex' = "none"
    /\ mainPc' = "collect"
    /\ UNCHANGED <<config, files, imageFiles, preVars, stats, chanVars, workers, destFs,
                   faults, histVars, callVars>>

\* The range over results ends; printStats; Process returns nil.
CollectDone ==
    /\ mainPc = "collect"
    /\ results = <<>>
    /\ resultsClosed
    /\ mainPc' = "done"
    /\ UNCHANGED <<config, files, imageFiles, preVars, poolVars, callVars>>

\* The pre-pass has not run.
PreIdle ==
    /\ preIdx = 0
    /\ lastTimestamp = ZeroTime
    /\ timestampAssignments = EmptyMap
    /\ preRead = EmptyMap
    /\ preallocRuns = 0

\* The pool has not started.
PoolIdle ==
    /\ stats = NoStats
    /\ statsMutex = "none"
    /\ jobs = <<>>
    /\ jobsClosed = FALSE
    /\ results = <<>>
    /\ resultsClosed = FALSE
    /\ workers = [w \in 1..MaxWorkers |-> IdleWorker]
    /\ faults = 0
    /\ workerRead = EmptyMap
    /\ exifWritten = EmptyMap
    /\ copiedTo = EmptyMap
    /\ increments = [c \in Counters |-> 0]
    /\ counted = EmptyMap
    /\ returned = EmptyMap
    /\ issued = EmptyMap
    /\ metaFailed = {}
    /\ walkErr = FALSE
    /\ jobsTaken = EmptyMap
    /\ collected = 0

(***************************************************************************)
(* processPhoto / processRemotePhoto, step by step: a step is one access   *)
(* to the destination, to a counter or to a channel, together with the     *)
(* work on the worker's own data that follows it.                          *)
(***************************************************************************)
\* The capture time that the tags written by UpdateExifDate hold: the wall
\* clock of t ("2006:01:02 15:04:05"), without its zone.
ExifValue(t) ==
    LET c == Clock(t)
    IN  Embedded(TimeDate(c[1], c[2], c[3], c[4], c[5], c[6], 0))

\* The worker is about to increment the counters of todo, then goes to after.
Counting(wk, todo, after) == [wk EXCEPT !.pc = "inc", !.todo = todo, !.after = after]

\* The worker between two files.
Waiting == [IdleWorker EXCEPT !.pc = "idle"]

\* Where a worker stands when it issues the transfer of its file to its
\* destination path: copyFile / UploadFile.
TransferPcs == {"copyUnknown", "copy", "upload"}

\* A step of worker w that leaves the jobs and the counters alone.  With
\* ret = "go" the worker goes on as wk; with ret = "nil" or "err" the function
\* returns and the worker sends that result: results <- err.  A step that
\* records a timestamp in exifWritten is a call of UpdateExifDate.
WorkerStep(w, wk, ret, fs, failed, wr, ew, ct) ==
    /\ workers' = [workers EXCEPT ![w] = IF ret = "go" THEN wk ELSE Waiting]
    /\ results' = IF ret = "go" THEN results ELSE Append(results, ret = "err")
    /\ destFs' = fs
    /\ faults' = IF failed THEN faults + 1 ELSE faults
    /\ workerRead' = wr
    /\ exifWritten' = ew
    /\ copiedTo' = ct
    /\ returned' = IF ret = "go" THEN returned
                   ELSE Put(returned, workers[w].path, ret = "err")
    /\ issued' = IF workers[w].pc \in TransferPcs
                 THEN Put(issued, workers[w].path,
                          [dest |-> workers[w].dest, over |-> Exists(workers[w].dest)])
                 ELSE issued
    /\ metaFailed' = IF failed /\ ew # exifWritten
                     THEN metaFailed \cup {workers[w].path}
                     ELSE metaFailed
    /\ UNCHANGED <<config, files, mainPc, imageFiles, preVars, stats, statsMutex, jobs,
                   jobsClosed, resultsClosed, increments, counted, walkErr, jobsTaken,
                   collected, callVars>>

\* How often path p has been received from jobs.
TimesTaken(p) == IF p \in DOMAIN jobsTaken THEN jobsTaken[p] ELSE 0

\* TakeJob with the copy to the unknown bucket also in a dry run.
TakeJob_CopiesInDryRun(w) ==
    /\ workers[w].pc = "idle"
    /\ jobs # <<>>
    /\ jobs' = Tail(jobs)
    /\ \E path \in {Head(jobs)} : \E parsed \in {dateOf[path]} :
       \E wk \in {[workers[w] EXCEPT !.path = path, !.date = parsed.info]} :
          workers' = [workers EXCEPT ![w] =
              IF parsed.err
              THEN [wk EXCEPT !.pc = "unknown"]
              ELSE [wk EXCEPT !.dest = destOf[path],
                              !.pc = IF config.FixMetadata THEN "statFix"
                                     ELSE IF config.SkipExisting THEN "statSkip"
                                     ELSE "read"]]
    /\ jobsTaken' = Put(jobsTaken, Head(jobs), TimesTaken(Head(jobs)) + 1)
    /\ UNCHANGED <<config, files, mainPc, imageFiles, preVars, stats, statsMutex, jobsClosed,
                   results, resultsClosed, destFs, faults, workerRead, exifWritten, copiedTo,
                   increments, counted, returned, issued, metaFailed, walkErr, collected,
                   callVars>>

\* for path := range jobs: a path is received; the function parses its date.
TakeJob(w) ==
    /\ workers[w].pc = "idle"
    /\ jobs # <<>>
    /\ jobs' = Tail(jobs)
    /\ \E path \in {Head(jobs)} : \E parsed \in {dateOf[path]} :
       \E wk \in {[workers[w] EXCEPT !.path = path, !.date = parsed.info]} :
          workers' = [workers EXCEPT ![w] =
              IF parsed.err
              THEN IF config.DryRun
                   THEN Counting(wk, <<"SkippedFiles">>, "send")
                   ELSE [wk EXCEPT !.pc = "unknown"]
              ELSE [wk EXCEPT !.dest = destOf[path],
                              !.pc = IF config.FixMetadata THEN "statFix"
                                     ELSE IF config.SkipExisting THEN "statSkip"
                                     ELSE "read"]]
    /\ jobsTaken' = Put(jobsTaken, Head(jobs), TimesTaken(Head(jobs)) + 1)
    /\ UNCHANGED <<config, files, mainPc, imageFiles, preVars, stats, statsMutex, jobsClosed,
                   results, resultsClosed, destFs, faults, workerRead, exifWritten, copiedTo,
                   increments, counted, returned, issued, metaFailed, walkErr, collected,
                   callVars>>

\* The range over jobs ends: wg.Done()
WorkerExit(w) ==
    /\ workers[w].pc = "idle"
    /\ jobs = <<>>
    /\ jobsClosed
    /\ workers' = [workers EXCEPT ![w].pc = "exited"]
    /\ UNCHANGED <<config, files, mainPc, imageFiles, preVars, stats, statsMutex, chanVars,
                   destFs, faults, histVars, callVars>>

\* p.stats.X++, first half: the counter is read.
IncLoad(w) ==
    /\ workers[w].pc = "inc"
    /\ workers' = [workers EXCEPT ![w].reg = stats[workers[w].todo[1]],
                                  ![w].pc = "incStore"]
    /\ UNCHANGED <<config, files, mainPc, imageFiles, preVars, stats, statsMutex, chanVars,
                   destFs, faults, histVars, callVars>>

\* p.stats.X++, second half: the value read, plus one, is written.  After
\* the last counter of a function that ends, return nil and results <- nil.
IncStore(w) ==
    /\ workers[w].pc = "incStore"
    /\ LET wk   == workers[w]
           c    == wk.todo[1]
           rest == Tail(wk.todo)
       IN  /\ stats' = [stats EXCEPT ![c] = wk.reg + 1]
           /\ increments' = [increments EXCEPT ![c] = @ + 1]
           /\ workers' = [workers EXCEPT ![w] =
                  IF rest # <<>> THEN [wk EXCEPT !.pc = "inc", !.todo = rest, !.reg = 0]
                  ELSE IF wk.after = "send" THEN Waiting
                  ELSE [wk EXCEPT !.pc = wk.after, !.todo = <<>>, !.after = "", !.reg = 0]]
           /\ results' = IF rest = <<>> /\ wk.after = "send"
                         THEN Append(results, FALSE)
                         ELSE results
           /\ counted' = Put(counted, wk.path,
                             (IF wk.path \in DOMAIN counted THEN counted[wk.path] ELSE <<>>)
                             \o <<c>>)
           /\ returned' = IF rest = <<>> /\ wk.after = "send"
                          THEN Put(returned, wk.path, FALSE)
                          ELSE returned
    /\ UNCHANGED <<config, files, mainPc, imageFiles, preVars, statsMutex, jobs, jobsClosed,
                   resultsClosed, destFs, faults, workerRead, exifWritten, copiedTo, issued,
                   metaFailed, walkErr, jobsTaken, collected, callVars>>

\* A step of worker w that only moves the worker on, as wk.
Go(w, wk) == WorkerStep(w, wk, "go", destFs, FALSE, workerRead, exifWritten, copiedTo)

\* Fail with the worker goroutine ending at the first error instead of
\* taking the next path.
Fail_StopsWorker(w, fs) ==
    /\ workers' = [workers EXCEPT ![w] = [IdleWorker EXCEPT !.pc = "exited"]]
    /\ results' = Append(results, TRUE)
    /\ destFs' = fs
    /\ faults' = faults + 1
    /\ returned' = Put(returned, workers[w].path, TRUE)
    /\ issued' = IF workers[w].pc \in TransferPcs
                 THEN Put(issued, workers[w].path,
                          [dest |-> workers[w].dest, over |-> Exists(workers[w].dest)])
                 ELSE issued
    /\ UNCHANGED <<config, files, mainPc, imageFiles, preVars, stats, statsMutex, jobs,
                   jobsClosed, resultsClosed, workerRead, exifWritten, copiedTo, increments,
                   counted, metaFailed, walkErr, jobsTaken, collected, callVars>>

\* An operation of worker w fails and the function returns its error; fs is
\* the destination it leaves.
Fail(w, fs) ==
    WorkerStep(w, workers[w], "err", fs, TRUE, workerRead, exifWritten, copiedTo)

\* What a transfer to path that fails may leave: nothing, or a part of the
\* file.
FailedTransfer(wk) == {destFs, WriteFile(wk.dest, wk.path, NoTimestamp, FALSE)}

\* No date, no dry run: the temporary download of a remote source, the
\* unknown directory, the loop that looks for a free name.
Unknown(w) ==
    /\ workers[w].pc = "unknown"
    /\ LET wk == workers[w]
       IN  \E ok \in Outcomes :
              IF ok
              THEN \E taken \in {DOMAIN destFs[Place]} : \E base \in {Base(wk.path)} :
                   \E dest \in {FirstFree(taken, base)} :
                      Go(w, [wk EXCEPT !.pc = "copyUnknown", !.dest = dest])
              ELSE Fail(w, destFs)

\* CopyUnknown with the function returning an error after the copy, as it
\* would if the file without a date were a failure.
CopyUnknown_ReturnsError(w) ==
    /\ workers[w].pc = "copyUnknown"
    /\ LET wk == workers[w]
       IN  \E ok \in Outcomes :
              IF ok
              THEN WorkerStep(w, wk, "err",
                              WriteFile(wk.dest, wk.path, files[wk.path], TRUE),
                              FALSE, workerRead, exifWritten, Put(copiedTo, wk.path, wk.dest))
              ELSE \E fs \in FailedTransfer(wk) : Fail(w, fs)

\* No date, no dry run: copyFile / UploadFile to the name found.
CopyUnknown(w) ==
    /\ workers[w].pc = "copyUnknown"
    /\ LET wk == workers[w]
       IN  \E ok \in Outcomes :
              IF ok
              THEN WorkerStep(w, Counting(wk, <<"SkippedFiles">>, "send"), "go",
                              WriteFile(wk.dest, wk.path, files[wk.path], TRUE),
                              FALSE, workerRead, exifWritten, Put(copiedTo, wk.path, wk.dest))
              ELSE \E fs \in FailedTransfer(wk) : Fail(w, fs)

\* SkipExisting: os.Stat / FileExists of the destination path.  An error of
\* FileExists is logged and counts as "does not exist".
StatSkip(w) ==
    /\ workers[w].pc = "statSkip"
    /\ LET wk == workers[w]
       IN  \E ok \in IF Place = "remote" THEN Outcomes ELSE {TRUE} :
              WorkerStep(w,
                  IF ok /\ Exists(wk.dest)
                  THEN Counting(wk, <<"SkippedFiles">>, "send")
                  ELSE [wk EXCEPT !.pc = "read"],
                  "go", destFs, ~ok, workerRead, exifWritten, copiedTo)

\* FixMetadata: os.Stat / FileExists of the destination path.
StatFix(w) ==
    /\ workers[w].pc = "statFix"
    /\ LET wk == workers[w]
       IN  \E ok \in IF Place = "remote" THEN Outcomes ELSE {TRUE} :
              WorkerStep(w,
                  IF ok /\ Exists(wk.dest)
                  THEN [wk EXCEPT !.pc = "read"]
                  ELSE Counting(wk, <<"SkippedFiles">>, "send"),
                  "go", destFs, ~ok, workerRead, exifWritten, copiedTo)

\* The timestamp a worker takes for a path, from what the read of its
\* metadata answered: the capture time when that is authoritative, else the
\* pre-allocated timestamp.
WorkerTimestamp(path, read, dateInfo) ==
    Once(DetermineCorrectTimestamp(videoOf[path], read, dateInfo),
         LAMBDA correct : IF correct[2] THEN correct[1]
                          ELSE GetSequentialTimestamp(timestampAssignments, path,
                                                      correct[1]))

\* The timestamp of the file: the temporary download of a remote source,
\* DetermineCorrectTimestamp, GetSequentialTimestamp, the return of a dry
\* run; for a remote source in normal mode also the temporary copy and
\* UpdateExifDate on it.
ReadSource(w) ==
    /\ workers[w].pc = "read"
    /\ \E wk \in {workers[w]} :
       \E ok \in IF config.SSHHost # "" THEN Outcomes ELSE {TRUE} :
          IF ~ok
          THEN Fail(w, destFs)
          ELSE \E read \in ReadOutcomes(files, wk.path) :
               \E wt \in {[wk EXCEPT !.ts = WorkerTimestamp(wk.path, read, wk.date)]} :
               \E wr \in {Put(workerRead, wk.path, read)} :
                  IF config.DryRun
                  THEN WorkerStep(w, wk, "nil", destFs, FALSE, wr, exifWritten, copiedTo)
                  ELSE IF config.FixMetadata \/ config.SSHHost = ""
                  THEN WorkerStep(w,
                           [wt EXCEPT !.pc = IF ~config.FixMetadata THEN "copy"
                                             ELSE IF Place = "remote" THEN "fetchDest"
                                             ELSE "update"],
                           "go", destFs, FALSE, wr, exifWritten, copiedTo)
                  ELSE IF ~config.Exiftool
                  THEN WorkerStep(w, [wt EXCEPT !.pc = "upload", !.meta = files[wk.path]],
                                  "go", destFs, FALSE, wr, exifWritten, copiedTo)
                  ELSE \E updated \in Outcomes :
                         WorkerStep(w,
                             IF updated
                             THEN Counting([wt EXCEPT !.meta = ExifValue(wt.ts)],
                                           <<"UpdatedMetadata">>, "upload")
                             ELSE [wt EXCEPT !.pc = "upload", !.meta = files[wk.path]],
                             "go", destFs, ~updated, wr,
                             Put(exifWritten, wk.path, wt.ts), copiedTo)

\* Local source, normal mode: os.MkdirAll and copyFile to the destination.
CopyFile(w) ==
    /\ workers[w].pc = "copy"
    /\ LET wk == workers[w]
       IN  \E ok \in Outcomes :
              IF ok
              THEN WorkerStep(w, Counting(wk, <<"MovedFiles">>, "update"), "go",
                              WriteFile(wk.dest, wk.path, files[wk.path], TRUE),
                              FALSE, workerRead, exifWritten, Put(copiedTo, wk.path, wk.dest))
              ELSE \E fs \in FailedTransfer(wk) : Fail(w, fs)

\* The destination after UpdateExifDate(path, t) has succeeded.
Updated(path, t) ==
    IF Exists(path) THEN [destFs EXCEPT ![Place][path].meta = ExifValue(t)] ELSE destFs

\* UpdateMetadata with UpdatedMetadata incremented whether or not
\* UpdateExifDate has succeeded.
UpdateMetadata_CountsFailure(w) ==
    /\ workers[w].pc = "update"
    /\ LET wk == workers[w]
       IN  IF ~config.Exiftool
           THEN Go(w, Counting(wk, <<"ProcessedFiles">>, "send"))
           ELSE \E ok \in Outcomes :
                  WorkerStep(w, Counting(wk, <<"UpdatedMetadata", "ProcessedFiles">>, "send"),
                      "go", IF ok THEN Updated(wk.dest, wk.ts) ELSE destFs, ~ok, workerRead,
                      Put(exifWritten, wk.path, wk.ts), copiedTo)

\* UpdateExifDate on the file at the local destination, when exiftool is
\* there; a failure is logged.
UpdateMetadata(w) ==
    /\ workers[w].pc = "update"
    /\ LET wk == workers[w]
       IN  IF ~config.Exiftool
           THEN Go(w, Counting(wk, <<"ProcessedFiles">>, "send"))
           ELSE \E ok \in Outcomes :
                  WorkerStep(w,
                      IF ok THEN Counting(wk, <<"UpdatedMetadata", "ProcessedFiles">>, "send")
                      ELSE Counting(wk, <<"ProcessedFiles">>, "send"),
                      "go", IF ok THEN Updated(wk.dest, wk.ts) ELSE destFs, ~ok, workerRead,
                      Put(exifWritten, wk.path, wk.ts), copiedTo)

\* Remote source, normal mode: CreateDirectory and UploadFile, or os.MkdirAll
\* and copyFile, of the temporary file.
Upload(w) ==
    /\ workers[w].pc = "upload"
    /\ LET wk == workers[w]
       IN  \E ok \in Outcomes :
              IF ok
              THEN WorkerStep(w, Counting(wk, <<"MovedFiles", "ProcessedFiles">>, "send"),
                              "go", WriteFile(wk.dest, wk.path, wk.meta, TRUE),
                              FALSE, workerRead, exifWritten, Put(copiedTo, wk.path, wk.dest))
              ELSE \E fs \in FailedTransfer(wk) : Fail(w, fs)

\* FixMetadata with a remote destination: the destination file is downloaded
\* and UpdateExifDate runs on the copy.
FetchDest(w) ==
    /\ workers[w].pc = "fetchDest"
    /\ LET wk == workers[w]
       IN  \E ok \in Outcomes :
              IF ~ok
              THEN Fail(w, destFs)
              ELSE IF ~config.Exiftool
              THEN Go(w, Counting(wk, <<"ProcessedFiles">>, "send"))
              ELSE \E updated \in Outcomes :
                     WorkerStep(w,
                         IF updated THEN [wk EXCEPT !.pc = "reupload"]
                         ELSE Counting(wk, <<"ProcessedFiles">>, "send"),
                         "go", destFs, ~updated, workerRead,
                         Put(exifWritten, wk.path, wk.ts), copiedTo)

\* FixMetadata with a remote destination: the updated copy is uploaded.
Reupload(w) ==
    /\ workers[w].pc = "reupload"
    /\ LET wk == workers[w]
       IN  \E ok \in Outcomes :
              IF ok
              THEN WorkerStep(w, Counting(wk, <<"UpdatedMetadata", "ProcessedFiles">>, "send"),
                              "go", Updated(wk.dest, wk.ts), FALSE, workerRead, exifWritten,
                              copiedTo)
              ELSE Fail(w, destFs)

Worker(w) ==
    \/ TakeJob(w) \/ WorkerExit(w) \/ IncLoad(w) \/ IncStore(w)
    \/ Unknown(w) \/ CopyUnknown(w) \/ StatSkip(w) \/ StatFix(w) \/ ReadSource(w)
    \/ CopyFile(w) \/ UpdateMetadata(w) \/ Upload(w) \/ FetchDest(w) \/ Reupload(w)

(***************************************************************************)
(* A whole run.                                                            *)
(***************************************************************************)
\* The capture times of the files of a run: none, or one in the year of the
\* name.
RunEmbedded == {NoTimestamp, Embedded(TimeDate(2024, 1, 15, 10, 30, 0, 0))}

\* The source trees of a run: the two files that are no candidates, and at
\* most MaxRunFiles candidates.
RunTrees ==
    LET extras == {p \in RunPaths : ~candidate[p][TRUE] \/ ~candidate[p][FALSE]}
        picks  == {S \in SUBSET (RunPaths \ extras) : Cardinality(S) <= MaxRunFiles}
    IN  UNION {{[p \in S \cup extras |-> IF p \in S THEN e[p] ELSE NoTimestamp] :
                   e \in [S -> RunEmbedded]} : S \in picks}

\* The file a destination holds before the run.
OldFile == [src |-> <<>>, meta |-> NoTimestamp, whole |-> TRUE]

\* The paths an earlier run has left files at: the first name of the unknown
\* bucket for photo_final.jpg, and the destination of in/2024_01_a.jpg.
OldPaths ==
    {UnknownName(<<"p", "h", "o", "t", "o", "_", "f", "i", "n", "a", "l", ".", "j", "p", "g">>, 0),
     destOf[<<"i", "n", "/", "2", "0", "2", "4", "_", "0", "1", "_", "a", ".", "j", "p", "g">>]}

\* What the destination holds before the run: nothing, or the files of an
\* earlier run.
RunDests ==
    {[local |-> d, remote |-> d] : d \in {EmptyMap, [q \in OldPaths |-> OldFile]}}

Init ==
    /\ config \in Configs
    /\ files \in RunTrees
    /\ destFs \in RunDests
    /\ mainPc = "start"
    /\ imageFiles = <<>>
    /\ PreIdle
    /\ PoolIdle
    /\ callArgs = <<>>
    /\ callResult = <<>>

Next ==
    \/ ProcessStart \/ Walk \/ SortFiles \/ PreallocateStart \/ PreallocateOne
    \/ PreallocateDone \/ StartWorkers \/ SendJobs \/ CloseResults \/ CollectResult
    \/ PrintProgress \/ CollectDone
    \/ \E w \in 1..MaxWorkers : Worker(w)

Spec == Init /\ [][Next]_vars

\* The runs over source files that hold no capture time; what the read of a
\* file's metadata answers decides no step of the pool.
InitFair == Init /\ \A p \in DOMAIN files : ~files[p].has

\* The run under the scheduler: while a goroutine can take a step, a step is
\* taken.
FairSpec == InitFair /\ [][Next]_vars /\ WF_vars(Next)

(***************************************************************************)
(* The sort on its own.                                                    *)
(***************************************************************************)
InitSort ==
    /\ mainPc = "enumerated"
    /\ imageFiles \in DistinctSeqs(SortPaths, MaxFiles)
    /\ config = NoConfig
    /\ files = [q \in Range(imageFiles) |-> NoTimestamp]
    /\ destFs = [local |-> EmptyMap, remote |-> EmptyMap]
    /\ PreIdle
    /\ PoolIdle
    /\ callArgs = <<>>
    /\ callResult = <<>>

SpecSort == InitSort /\ [][SortFiles]_vars

(***************************************************************************)
(* The pre-pass on its own, over sorted lists of the files of              *)
(* PreallocPaths, with capture times that match the year of the name or   *)
(* not, in UTC and in a location west of it.                               *)
(***************************************************************************)
EmbeddedOptions ==
    {NoTimestamp,
     Embedded(TimeDate(2024, 6, 5, 14, 22, 10, 0)),
     Embedded(TimeDate(2024, 1, 1, 0, 0, 0, -8 * 3600)),
     Embedded(TimeDate(1970, 1, 1, 0, 0, 0, 0))}

\* The source trees of at most n files with paths in P.
Trees(P, n) ==
    UNION {[S -> EmbeddedOptions] : S \in {T \in SUBSET P : Cardinality(T) <= n}}

\* The sorted lists a tree gives.
SortedListings(tree) ==
    UNION {naturalSort(q) : q \in {CHOOSE l \in Listings(DOMAIN tree) : TRUE}}

InitPrealloc ==
    /\ files \in Trees(PreallocPaths, MaxFiles)
    /\ imageFiles \in SortedListings(files)
    /\ mainPc = "sorted"
    /\ config = NoConfig
    /\ destFs = [local |-> EmptyMap, remote |-> EmptyMap]
    /\ PreIdle
    /\ PoolIdle
    /\ callArgs = <<>>
    /\ callResult = <<>>

NextPrealloc == PreallocateStart \/ PreallocateOne \/ PreallocateDone

SpecPrealloc == InitPrealloc /\ [][NextPrealloc]_vars

(***************************************************************************)
(* Properties of the pre-pass.                                             *)
(***************************************************************************)
\* The paths with a date among the first n candidates, in their order.
RECURSIVE DatedPrefix(_, _)
DatedPrefix(q, n) ==
    IF n = 0 THEN <<>>
    ELSE IF dateOf[q[n]].err THEN DatedPrefix(q, n - 1)
    ELSE Append(DatedPrefix(q, n - 1), q[n])

\* Whether the pre-pass took the timestamp of path p from its metadata.
Authoritative(p) ==
    DetermineCorrectTimestamp(videoOf[p], preRead[p], dateOf[p].info)[2]

\* The instant of t is strictly before that of u.
Before(t, u) == After(u, t)

\* C1: in the order of the sorted list, of two paths whose pre-allocated
\* timestamps are both synthetic the earlier path has the strictly earlier
\* timestamp, whatever authoritative files lie before, between or after them.
C1_SyntheticMonotone ==
    LET dated == DatedPrefix(imageFiles, preIdx)
    IN  mainPc \in {"prealloc", "spawn"} =>
            \A i, j \in 1..Len(dated) :
                (i < j /\ ~Authoritative(dated[i]) /\ ~Authoritative(dated[j]))
                    => Before(timestampAssignments[dated[i]], timestampAssignments[dated[j]])

\* C1, witness: the pre-pass has ended with an authoritative file between two
\* synthetic ones, and the authoritative timestamp is not the latest.
C1_Witness ==
    LET dated == DatedPrefix(imageFiles, preIdx)
    IN  /\ mainPc = "spawn"
        /\ Len(dated) = 3
        /\ ~Authoritative(dated[1]) /\ Authoritative(dated[2]) /\ ~Authoritative(dated[3])
        /\ Before(timestampAssignments[dated[2]], timestampAssignments[dated[1]])

\* Midnight of the day on which the parsed date, as a timestamp, falls.
MidnightOf(dateInfo) ==
    LET c == Clock(ToTime(dateInfo))
    IN  TimeDate(c[1], c[2], c[3], 0, 0, 0, 0)

C25_LastTimestampNeverDecreases ==
    [][/\ lastTimestamp' = lastTimestamp \/ After(lastTimestamp', lastTimestamp)
       /\ (mainPc = "prealloc" /\ preIdx' = preIdx + 1 /\ ~dateOf[imageFiles[preIdx + 1]].err) =>
             LET p  == imageFiles[preIdx + 1]
                 ts == timestampAssignments'[p]
             IN  IF DetermineCorrectTimestamp(videoOf[p], preRead'[p], dateOf[p].info)[2]
                 THEN lastTimestamp' = IF After(ts, lastTimestamp) THEN ts ELSE lastTimestamp
                 ELSE lastTimestamp' = ts /\ After(ts, lastTimestamp)]_vars

\* C25, witness: the file handled last has an authoritative timestamp that is
\* earlier than the running timestamp, which an earlier file has set.
C25_Witness ==
    /\ mainPc = "prealloc"
    /\ preIdx > 1
    /\ ~dateOf[imageFiles[preIdx]].err
    /\ Authoritative(imageFiles[preIdx])
    /\ After(lastTimestamp, timestampAssignments[imageFiles[preIdx]])

\* C26: the timestamp stored for a file whose reconciled timestamp is
\* authoritative is the capture timestamp read from the file, as it was read,
\* whatever lastTimestamp was and whatever files came before.
C26_AuthoritativeStoredUnchanged ==
    \A p \in DOMAIN timestampAssignments :
       Authoritative(p) => timestampAssignments[p] = preRead[p].ts

\* C26, witness: the pre-pass has ended; a file with an authoritative
\* timestamp follows a file whose stored timestamp is later, and has kept the
\* timestamp of its metadata.
C26_Witness ==
    /\ mainPc = "spawn"
    /\ \E i, j \in 1..Len(imageFiles) :
          /\ i < j
          /\ imageFiles[i] \in DOMAIN timestampAssignments
          /\ imageFiles[j] \in DOMAIN timestampAssignments
          /\ Authoritative(imageFiles[j])
          /\ After(timestampAssignments[imageFiles[i]], timestampAssignments[imageFiles[j]])
          /\ timestampAssignments[imageFiles[j]] = files[imageFiles[j]].ts

\* C30: a synthetic timestamp is strictly later than the timestamp, synthetic
\* or authoritative, of every file with a date that stands before its file in
\* the sorted list.
C30_SyntheticAfterAllEarlier ==
    LET dated == DatedPrefix(imageFiles, preIdx)
    IN  mainPc \in {"prealloc", "spawn"} =>
            \A i, j \in 1..Len(dated) :
                (i < j /\ ~Authoritative(dated[j]))
                    => After(timestampAssignments[dated[j]], timestampAssignments[dated[i]])

\* C30, witness: the pre-pass has ended; a file with a synthetic timestamp
\* follows a file with an authoritative one and has got the second after it.
C30_Witness ==
    /\ mainPc = "spawn"
    /\ \E i, j \in 1..Len(imageFiles) :
          /\ i < j
          /\ imageFiles[i] \in DOMAIN timestampAssignments
          /\ imageFiles[j] \in DOMAIN timestampAssignments
          /\ Authoritative(imageFiles[i])
          /\ ~Authoritative(imageFiles[j])
          /\ timestampAssignments[imageFiles[j]] = AddSecond(timestampAssignments[imageFiles[i]])

(***************************************************************************)
(* The reconciler on its own.                                              *)
(***************************************************************************)
ReconcileReads ==
    {NoTimestamp,
     Embedded(ZeroTime),
     Embedded(TimeDate(2019, 6, 5, 14, 22, 10, 0)),
     Embedded(TimeDate(2019, 1, 1, 12, 0, 0, 0)),
     Embedded(TimeDate(1970, 1, 1, 0, 0, 0, 0)),
     Embedded(TimeDate(2019, 12, 31, 20, 0, 0, -8 * 3600)),
     Embedded(TimeDate(1998, 3, 4, 5, 6, 7, 0))}

ReconcileDates ==
    {DateInfo(2019, 1, 1, <<>>),
     DateInfo(2019, 6, 5, <<"1", "4", ":", "2", "2", ":", "1", "0">>),
     DateInfo(1998, 1, 1, <<>>),
     DateInfo(2020, 1, 1, <<>>),
     DateInfo(2024, 2, 31, <<>>),
     DateInfo(1970, 1, 1, <<"0", "0", ":", "0", "0", ":", "0", "0">>)}

InitReconcile ==
    /\ callArgs \in [video : BOOLEAN, read : ReconcileReads, parsedDate : ReconcileDates]
    /\ callResult = <<>>
    /\ config = NoConfig
    /\ files = EmptyMap
    /\ mainPc = "call"
    /\ imageFiles = <<>>
    /\ destFs = [local |-> EmptyMap, remote |-> EmptyMap]
    /\ PreIdle
    /\ PoolIdle

Reconcile ==
    /\ callResult = <<>>
    /\ callResult' =
           <<DetermineCorrectTimestamp(callArgs.video, callArgs.read, callArgs.parsedDate)>>
    /\ UNCHANGED <<callArgs, runVars>>

SpecReconcile == InitReconcile /\ [][Reconcile]_vars

\* C6: the reconciler returns (the embedded timestamp, true) exactly when an
\* embedded timestamp exists and its calendar year is the parsed year, and
\* (the parsed date as a timestamp, false) in every other case; month and day
\* of the embedded timestamp play no part.
C6_Reconciler ==
    callResult # <<>> =>
        LET read   == callArgs.read
            parsed == callArgs.parsedDate
        IN  IF read.has /\ Year(read.ts) = parsed.Year
            THEN callResult[1] = <<read.ts, TRUE>>
            ELSE callResult[1] = <<ToTime(parsed), FALSE>>

\* C6, witness: embedded 2019-06-05T14:22:10, parsed 2019-01-01 (only the
\* years match): the embedded timestamp comes back, authoritative.
C6_Witness ==
    /\ callResult # <<>>
    /\ callArgs.read = Embedded(TimeDate(2019, 6, 5, 14, 22, 10, 0))
    /\ callArgs.parsedDate = DateInfo(2019, 1, 1, <<>>)
    /\ callResult[1][2]
    /\ Clock(callResult[1][1]) = <<2019, 6, 5, 14, 22, 10>>

(***************************************************************************)
(* Properties of the sort.                                                 *)
(***************************************************************************)
\* The order C8 describes: runs of digits by numeric value, other runs as
\* text, run by run, the shorter list of runs first when it is a prefix.
DescribedLess(a, b) ==
    LET aParts == FindAllRuns(a)
        bParts == FindAllRuns(b)
        n      == Min(Len(aParts), Len(bParts))
        bothNum(idx) == IsDigit(aParts[idx][1]) /\ IsDigit(bParts[idx][1])
        differs(idx) ==
            IF bothNum(idx)
            THEN StripZeros(aParts[idx]) # StripZeros(bParts[idx])
            ELSE aParts[idx] # bParts[idx]
        D == {idx \in 1..n : differs(idx)}
    IN  IF D = {}
        THEN Len(aParts) < Len(bParts)
        ELSE LET idx == CHOOSE i \in D : \A j \in D : i <= j
             IN  IF bothNum(idx)
                 THEN NumLess(StripZeros(aParts[idx]), StripZeros(bParts[idx]))
                 ELSE StrLess(aParts[idx], bParts[idx])

describedLessThan[a \in SortPaths] == {b \in SortPaths : DescribedLess(a, b)}

\* C8: the sorted list is in the described order (no path is followed by one
\* that the described order puts before it), and img2.jpg, img10.jpg, img1.jpg
\* come out as img1.jpg, img2.jpg, img10.jpg.
C8_NaturalSortOrder ==
    mainPc = "sorted" =>
        /\ \A i, j \in 1..Len(imageFiles) :
              i < j => imageFiles[i] \notin describedLessThan[imageFiles[j]]
        /\ Range(imageFiles) = {<<"i", "m", "g", "1", ".", "j", "p", "g">>,
                                <<"i", "m", "g", "2", ".", "j", "p", "g">>,
                                <<"i", "m", "g", "1", "0", ".", "j", "p", "g">>}
              => imageFiles = << <<"i", "m", "g", "1", ".", "j", "p", "g">>,
                                 <<"i", "m", "g", "2", ".", "j", "p", "g">>,
                                 <<"i", "m", "g", "1", "0", ".", "j", "p", "g">> >>

(***************************************************************************)
(* Properties of the whole run.                                            *)
(***************************************************************************)
\* What preallocateTimestamps assigns to the first n paths of q when every
\* read of a file answers what the file holds: the map and the running
\* timestamp of one sequential pass.
RECURSIVE SequentialPass(_, _, _)
SequentialPass(q, tree, n) ==
    IF n = 0 THEN [map |-> EmptyMap, last |-> ZeroTime]
    ELSE LET before == SequentialPass(q, tree, n - 1)
             parsed == dateOf[q[n]]
             alloc  == AllocateTimestamp(before.last, parsed.info,
                           DetermineCorrectTimestamp(videoOf[q[n]], tree[q[n]], parsed.info))
         IN  IF parsed.err THEN before
             ELSE [map |-> Put(before.map, q[n], alloc[1]), last |-> alloc[2]]

\* The reads of the metadata that bear on path p have answered what the
\* files hold: those of the pre-pass, and the worker's read of p.
FixedReads(p) ==
    /\ p \in DOMAIN workerRead /\ workerRead[p] = files[p]
    /\ \A q \in DOMAIN preRead : preRead[q] = files[q]

\* C2: with the candidate files and the answers of the metadata reads fixed,
\* the timestamp written to a file's metadata is the one a sequential pass
\* over the sorted list gives, for every number of workers and every
\* interleaving and completion order of the workers.
C2_ScheduleIndependent ==
    \A p \in DOMAIN exifWritten :
        FixedReads(p) =>
            exifWritten[p] = SequentialPass(imageFiles, files, Len(imageFiles)).map[p]

\* C2, witness: two workers have written the timestamps of two files, one of
\* them synthetic, all reads having answered what the files hold.
C2_Witness ==
    /\ config.Workers = 2
    /\ Cardinality(DOMAIN exifWritten) = 2
    /\ \A p \in DOMAIN exifWritten : FixedReads(p)
    /\ \E p \in DOMAIN exifWritten : ~Authoritative(p)
    /\ \E w \in 1..MaxWorkers : workers[w].pc \in {"inc", "incStore"}

\* A worker goroutine has been started.
Started == \E w \in 1..MaxWorkers : workers[w].pc # "off"

\* C3: the pre-pass runs at most once, it has run once and over the whole
\* list before any worker is started, and after that no step writes
\* timestampAssignments.
C3_PreallocateOnceBeforeWorkers ==
    /\ [](preallocRuns <= 1)
    /\ []((Started \/ mainPc = "done") =>
              /\ preallocRuns = 1
              /\ preIdx = Len(imageFiles)
              /\ mainPc \in Collecting \cup {"done"})
    /\ [][Started => timestampAssignments' = timestampAssignments]_vars

\* C3, witness: a worker is about to look up its timestamp in a map that
\* the pre-pass has filled.
C3_Witness ==
    /\ \E w \in 1..MaxWorkers :
          workers[w].pc = "read" /\ workers[w].path \in DOMAIN timestampAssignments
    /\ preallocRuns = 1

\* C4: the timestamp a worker hands to UpdateExifDate for a path is the one
\* that timestampAssignments holds for the path, also when the read of the
\* metadata answered differently in the worker than in the pre-pass.
C4_WorkerPassesMapTimestamp ==
    \A p \in DOMAIN exifWritten :
        p \in DOMAIN timestampAssignments /\ exifWritten[p] = timestampAssignments[p]

\* C5: no increment of a counter is lost: each counter is the number of
\* increments made to it.
C5_NoLostIncrement == \A c \in Counters : stats[c] = increments[c]

\* C9: with two or more workers, no two files without a date are written to
\* the same path of the unknown directory.
C9_UnknownNamesDistinct ==
    config.Workers >= 2 =>
        \A p, q \in DOMAIN copiedTo :
            (p # q /\ dateOf[p].err /\ dateOf[q].err) => copiedTo[p] # copiedTo[q]

\* C10: with one worker, a file without a date whose base name is N.ext is
\* copied to unknown/N.ext when nothing is there, else to unknown/N_k.ext for
\* the smallest k >= 1 at which nothing is there; the second photo_final.jpg
\* goes to unknown/photo_final_1.jpg.
C10_SingleWorkerUnknownName ==
    config.Workers = 1 =>
        \A w \in 1..MaxWorkers :
            workers[w].pc = "copyUnknown" =>
                LET base == Base(workers[w].path)
                    dest == workers[w].dest
                IN  /\ \E k \in 0..Cardinality(DOMAIN destFs[Place]) :
                          /\ dest = UnknownName(base, k)
                          /\ ~Exists(dest)
                          /\ \A j \in 0..(k - 1) : Exists(UnknownName(base, j))
                    /\ (/\ base = <<"p", "h", "o", "t", "o", "_", "f", "i", "n", "a", "l", ".", "j", "p", "g">>
                        /\ Exists(<<"o", "u", "t", "/", "u", "n", "k", "n", "o", "w", "n", "/", "p", "h", "o", "t", "o", "_", "f", "i", "n", "a", "l", ".", "j", "p", "g">>)
                        /\ ~Exists(<<"o", "u", "t", "/", "u", "n", "k", "n", "o", "w", "n", "/", "p", "h", "o", "t", "o", "_", "f", "i", "n", "a", "l", "_", "1", ".", "j", "p", "g">>))
                          => dest = <<"o", "u", "t", "/", "u", "n", "k", "n", "o", "w", "n", "/", "p", "h", "o", "t", "o", "_", "f", "i", "n", "a", "l", "_", "1", ".", "j", "p", "g">>

\* C10, witness: one worker has copied two files named photo_final.jpg, the
\* second one to unknown/photo_final_1.jpg.
C10_Witness ==
    /\ config.Workers = 1
    /\ \E p, q \in DOMAIN copiedTo :
          /\ Base(p) = <<"p", "h", "o", "t", "o", "_", "f", "i", "n", "a", "l", ".", "j", "p", "g">>
          /\ Base(q) = <<"p", "h", "o", "t", "o", "_", "f", "i", "n", "a", "l", ".", "j", "p", "g">>
          /\ copiedTo[p] = <<"o", "u", "t", "/", "u", "n", "k", "n", "o", "w", "n", "/", "p", "h", "o", "t", "o", "_", "f", "i", "n", "a", "l", ".", "j", "p", "g">>
          /\ copiedTo[q] = <<"o", "u", "t", "/", "u", "n", "k", "n", "o", "w", "n", "/", "p", "h", "o", "t", "o", "_", "f", "i", "n", "a", "l", "_", "1", ".", "j", "p", "g">>

(***************************************************************************)
(* The outcome of a file: what its worker counted and returned for it.     *)
(***************************************************************************)
\* The directory of the unknown bucket, with the separator after it.
UnknownDir == Join(<<DestDir, <<"u", "n", "k", "n", "o", "w", "n">>>>) \o <<"/">>

\* The counters the worker of path p has incremented for it, in their order.
CountedFor(p) == IF p \in DOMAIN counted THEN counted[p] ELSE <<>>

\* How often counter c has been incremented for path p.
TimesCounted(p, c) == Cardinality({i \in 1..Len(CountedFor(p)) : CountedFor(p)[i] = c})

\* C11: a file without a date that the function has returned from, in a dry
\* run or with its copy to the unknown bucket done, has returned no error, has
\* been counted once, as skipped, and by no other counter, lies in the unknown
\* bucket if it was copied, and the run has not been aborted.
C11_UndatedSkippedNotError ==
    \A p \in DOMAIN returned :
       (dateOf[p].err /\ (config.DryRun \/ p \in DOMAIN copiedTo)) =>
          /\ ~returned[p]
          /\ CountedFor(p) = <<"SkippedFiles">>
          /\ p \in DOMAIN copiedTo => HasPrefix(copiedTo[p], UnknownDir)
          /\ mainPc # "failed"

\* C11, witness: a run has ended in which a file without a date was copied to
\* the unknown bucket and counted as skipped, with no error counted.
C11_Witness ==
    /\ mainPc = "done"
    /\ stats.SkippedFiles = 1
    /\ stats.ErrorFiles = 0
    /\ \E p \in DOMAIN copiedTo :
          dateOf[p].err /\ p \in DOMAIN returned /\ HasPrefix(copiedTo[p], UnknownDir)

\* The paths whose transfer was issued and has failed.
TransferFailed == DOMAIN issued \ DOMAIN copiedTo

\* C12: a file whose transfer has failed has returned an error, no worker
\* holds it any more, and it has been counted neither as moved nor as
\* processed; at the end of a run with such a file every enumerated file has
\* been through the function, the errors counted are the files that returned one,
\* and Process has returned nil; and from the failure on no timestamp is
\* handed to UpdateExifDate for the file.
C12_TransferFailureIsOneError ==
    /\ [](\A p \in TransferFailed :
            /\ p \in DOMAIN returned /\ returned[p]
            /\ \A w \in 1..MaxWorkers : workers[w].path # p
            /\ TimesCounted(p, "MovedFiles") = 0
            /\ TimesCounted(p, "ProcessedFiles") = 0
            /\ mainPc # "failed"
            /\ mainPc = "done" =>
                  /\ DOMAIN returned = Range(imageFiles)
                  /\ stats.ErrorFiles = Cardinality({q \in DOMAIN returned : returned[q]}))
    /\ [][\A p \in TransferFailed :
             /\ p \in TransferFailed'
             /\ (p \in DOMAIN exifWritten) = (p \in DOMAIN exifWritten')
             /\ p \in DOMAIN exifWritten => exifWritten'[p] = exifWritten[p]]_vars

\* C12, witness: a run of two files has ended; the transfer of one has
\* failed, the other has been copied and counted, one error is counted.
C12_Witness ==
    /\ mainPc = "done"
    /\ stats.ErrorFiles = 1
    /\ \E p \in TransferFailed : \E q \in DOMAIN copiedTo :
          /\ ~returned[q]
          /\ TimesCounted(q, "ProcessedFiles") = 1

\* C13: a file that was transferred and whose call of UpdateExifDate has
\* failed has, once the function has returned from it, returned no error, been
\* counted once as processed, and not been counted in UpdatedMetadata.
C13_MetadataFailureStillProcessed ==
    \A p \in metaFailed \cap DOMAIN copiedTo \cap DOMAIN returned :
       /\ ~returned[p]
       /\ TimesCounted(p, "ProcessedFiles") = 1
       /\ TimesCounted(p, "UpdatedMetadata") = 0

\* C13, witness: a run has ended in which a file was copied to the local
\* destination, UpdateExifDate has failed on the copy, and the counters stand
\* at one file processed, none updated, no error.
C13_Witness ==
    /\ mainPc = "done"
    /\ config.SSHHost = ""
    /\ stats.ProcessedFiles = 1
    /\ stats.UpdatedMetadata = 0
    /\ stats.ErrorFiles = 0
    /\ \E p \in metaFailed : p \in DOMAIN copiedTo /\ p \in DOMAIN returned

\* C14: when the source root could not be listed, Process has returned an
\* error, and no file has been enumerated or been through a worker.
C14_ListingFailureAborts ==
    walkErr =>
       /\ mainPc = "failed"
       /\ imageFiles = <<>>
       /\ returned = EmptyMap

\* C15: in a run with RemoteDest and no DestSSHHost, Process is at its start
\* or has returned an error, and nothing has happened: no file enumerated, no
\* pre-pass, no worker started, no transfer issued, no timestamp handed to
\* UpdateExifDate, no counter changed.
C15_NoDestHostFailsFirst ==
    (config.RemoteDest /\ config.DestSSHHost = "") =>
       /\ mainPc \in {"start", "failed"}
       /\ imageFiles = <<>>
       /\ ~walkErr
       /\ PreIdle
       /\ stats = NoStats
       /\ \A w \in 1..MaxWorkers : workers[w] = IdleWorker
       /\ issued = EmptyMap
       /\ exifWritten = EmptyMap
       /\ returned = EmptyMap

\* C15, witness: Process has returned its error in a run with RemoteDest, no
\* DestSSHHost, and a source tree that holds candidates.
C15_Witness ==
    /\ config.RemoteDest
    /\ config.DestSSHHost = ""
    /\ mainPc = "failed"
    /\ \E p \in DOMAIN files : candidate[p][config.SSHHost # ""]

\* C16: in fix-metadata mode no transfer of a source file to the destination
\* is issued, for no candidate, and a candidate with a date whose destination
\* file does not exist is counted as skipped and returns no error.
C16_FixMetadataNeverCopies ==
    config.FixMetadata =>
       /\ issued = EmptyMap
       /\ copiedTo = EmptyMap
       /\ \A p \in DOMAIN returned :
             (~dateOf[p].err /\ ~Exists(destOf[p])) =>
                ~returned[p] /\ CountedFor(p) = <<"SkippedFiles">>

\* C17: with SkipExisting, no transfer of a file with a date is issued to a
\* destination path that holds a file, and a file with a date whose
\* destination path still holds the file it held before the run is counted as
\* skipped, with no transfer and no timestamp handed to UpdateExifDate.
C17_SkipExistingNeverOverwrites ==
    config.SkipExisting =>
       /\ \A p \in DOMAIN issued : ~dateOf[p].err => ~issued[p].over
       /\ \A p \in DOMAIN returned :
             (~dateOf[p].err /\ Exists(destOf[p]) /\ destFs[Place][destOf[p]] = OldFile) =>
                /\ CountedFor(p) = <<"SkippedFiles">>
                /\ p \notin DOMAIN issued
                /\ p \notin DOMAIN exifWritten

\* C18: in a dry run no transfer is issued, no timestamp is handed to
\* UpdateExifDate, and no step changes what the destination holds, in every
\* mode and for files with and without a date.
C18_DryRunLeavesDestination ==
    /\ [](config.DryRun =>
            /\ issued = EmptyMap
            /\ copiedTo = EmptyMap
            /\ exifWritten = EmptyMap
            /\ metaFailed = {})
    /\ [][config.DryRun => destFs' = destFs]_vars

\* C18, witness: a dry run over a file with a date and a file without one has
\* ended, both files having been through the function.
C18_Witness ==
    /\ config.DryRun
    /\ mainPc = "done"
    /\ \E p, q \in DOMAIN returned : dateOf[p].err /\ ~dateOf[q].err

\* C24: in normal mode the timestamp handed to UpdateExifDate for a file, the
\* value of DateTimeOriginal, CreateDate and ModifyDate, falls on the year,
\* month and day that ParseDateFromFilename found for the file.
C24_WrittenDateIsParsedDate ==
    (~config.DryRun /\ ~config.FixMetadata) =>
       \A p \in DOMAIN exifWritten :
          LET c == Clock(exifWritten[p])
              d == dateOf[p].info
          IN  <<c[1], c[2], c[3]>> = <<d.Year, d.Month, d.Day>>

\* C29: in normal mode, with a local and with a remote source, UpdateExifDate
\* is called for a file only after its transfer to the destination has
\* succeeded, and UpdatedMetadata is counted only for a file that has been
\* transferred.
C29_TransferBeforeMetadata ==
    (~config.DryRun /\ ~config.FixMetadata) =>
       /\ \A p \in DOMAIN exifWritten : p \in DOMAIN copiedTo
       /\ \A p \in DOMAIN counted :
             TimesCounted(p, "UpdatedMetadata") > 0 => p \in DOMAIN copiedTo

(***************************************************************************)
(* ParseDateFromFilename on its own, over names that hold a year, a month  *)
(* and a day at, inside and outside the ends of the ranges, in the notations *)
(* with hyphens, with underscores and without separators, as the name of   *)
(* the file or as the name of its folder.                                  *)
(***************************************************************************)
ParseYears == {<<"1", "7", "9", "9">>, <<"1", "8", "0", "0">>, <<"2", "0", "2", "4">>, <<"2", "1", "0", "0">>, <<"2", "1", "0", "1">>}

ParseMonths == {<<"0", "0">>, <<"0", "1">>, <<"1", "2">>, <<"1", "3">>}

ParseDays == {<<"0", "0">>, <<"0", "1">>, <<"3", "1">>, <<"3", "2">>}

ParseSeps == {<<"-">>, <<"_">>, <<>>}

\* Names that hold a year, a month and a day in one of the notations.
DatedNames ==
    UNION {{<<"i", "n", "/">> \o y \o sep \o m \o sep \o d \o <<".", "j", "p", "g">>,
            <<"i", "n", "/">> \o y \o sep \o m \o sep \o d \o <<"/", "x", ".", "j", "p", "g">>} :
              <<y, m, d, sep>> \in ParseYears \X ParseMonths \X ParseDays \X ParseSeps}

\* Names of the form YYYY_description.ext: a year of the range, an
\* underscore and a description without digits.
NameYears == {<<"1", "8", "0", "0">>, <<"1", "8", "1", "2">>, <<"1", "9", "9", "9">>, <<"2", "0", "1", "2">>, <<"2", "0", "2", "4">>, <<"2", "1", "0", "0">>}

Descriptions == {<<"b", "e", "a", "c", "h">>, <<"a">>}

YearName(y, desc) == <<"i", "n", "/">> \o y \o <<"_">> \o desc \o <<".", "j", "p", "g">>

YearNames == {YearName(y, desc) : <<y, desc>> \in NameYears \X Descriptions}

\* Names that start with a year of two digits: YYMMDD_description.ext and
\* YYMM_description.ext, with the years at and around the cutover.
ShortYears == {<<"0", "0">>, <<"5", "0">>, <<"5", "1">>, <<"9", "9">>}

ShortName(yy, day) ==
    <<"i", "n", "/">> \o yy \o <<"0", "6">> \o day \o <<"_", "b", "e", "a", "c", "h", ".", "j", "p", "g">>

ShortNames == {ShortName(yy, day) : <<yy, day>> \in ShortYears \X {<<"1", "5">>, <<>>}}

\* Names for the order of the search: the example of the documentation, a
\* name and a folder with different dates, a name whose only match is out of
\* range in a folder with a date, a name with an invalid and a valid date of
\* different rules, and one with both of the same rule.
CascadeNames ==
    {
     <<"i", "n", "/", "2", "0", "2", "4", "0", "3", "1", "5", "_", "v", "a", "c", "a", "t", "i", "o", "n", ".", "j", "p", "g">>,
     <<"i", "n", "/", "2", "0", "2", "0", "-", "0", "1", "-", "0", "2", "/", "2", "0", "2", "4", "_", "0", "3", "_", "1", "5", ".", "j", "p", "g">>,
     <<"i", "n", "/", "2", "0", "2", "0", "-", "0", "1", "-", "0", "2", "/", "2", "0", "2", "4", "1", "3", "4", "0", ".", "j", "p", "g">>,
     <<"i", "n", "/", "2", "0", "2", "4", "-", "1", "3", "-", "0", "1", "_", "2", "0", "2", "3", "_", "0", "5", "_", "0", "6", ".", "j", "p", "g">>,
     <<"i", "n", "/", "2", "0", "2", "4", "-", "1", "3", "-", "0", "1", "_", "2", "0", "2", "3", "-", "0", "5", "-", "0", "6", ".", "j", "p", "g">>
    }

ParseNames == DatedNames \cup YearNames \cup ShortNames \cup CascadeNames

InitParse ==
    /\ callArgs \in [filename : ParseNames]
    /\ callResult = <<>>
    /\ config = NoConfig
    /\ files = EmptyMap
    /\ mainPc = "call"
    /\ imageFiles = <<>>
    /\ destFs = [local |-> EmptyMap, remote |-> EmptyMap]
    /\ PreIdle
    /\ PoolIdle

Parse ==
    /\ callResult = <<>>
    /\ callResult' = <<ParseDateFromFilename(callArgs.filename)>>
    /\ UNCHANGED <<callArgs, runVars>>

SpecParse == InitParse /\ [][Parse]_vars

\* C20: a DateInfo that ParseDateFromFilename returns has its year in
\* 1800..2100, its month in 1..12 and its day in 1..31.
C20_ParsedDateInRange ==
    (callResult # <<>> /\ ~callResult[1].err) =>
       /\ callResult[1].info.Year \in 1800..2100
       /\ callResult[1].info.Month \in 1..12
       /\ callResult[1].info.Day \in 1..31

\* C20, witness: for the name 2100_12_32.jpg the match of the rule for
\* YYYY_MM_DD, with the day 32, has been passed over and the call has
\* returned the date of a later rule, 2100-12-01.
C20_Witness ==
    /\ callResult # <<>>
    /\ callArgs.filename = <<"i", "n", "/", "2", "1", "0", "0", "_", "1", "2", "_", "3", "2", ".", "j", "p", "g">>
    /\ Rule3(callArgs.filename).matched
    /\ Rule3(callArgs.filename).info.Day = 32
    /\ ~callResult[1].err
    /\ callResult[1].info = DateInfo(2100, 12, 1, <<>>)

\* C21: for a name of the form YYYY_description.ext, with YYYY a year in
\* 1800..2100 and a description without digits, ParseDateFromFilename
\* returns the year YYYY, the month 1 and the day 1.
C21_YearOnlyNameIsJanuaryFirst ==
    \A y \in NameYears : \A desc \in Descriptions :
       (callResult # <<>> /\ callArgs.filename = YearName(y, desc)) =>
          /\ ~callResult[1].err
          /\ callResult[1].info = DateInfo(IntOf(y), 1, 1, <<>>)

\* Whether rule k has, in the text s, a match with the year in 1800..2100,
\* the month in 1..12 and the day in 1..31.
YieldsDate(k, s) ==
    /\ Rule(k, s).matched
    /\ Rule(k, s).info.Year \in 1800..2100
    /\ Rule(k, s).info.Month \in 1..12
    /\ Rule(k, s).info.Day \in 1..31

\* Whether rule k is the first rule that yields a date in s.
FirstYielding(k, s) == YieldsDate(k, s) /\ \A j \in 1..(k - 1) : ~YieldsDate(j, s)

\* C27: the rules are tried in their order, on the name without extension
\* first and on the full path only when no rule yields a valid date on the
\* name; the first rule whose match is in range gives the date, a match out
\* of range is passed over; 20240315_vacation.jpg gives 2024-03-15.
C27_CascadeOrder ==
    callResult # <<>> =>
       LET path == callArgs.filename
           name == TrimSuffix(Base(path), Ext(path))
           r    == callResult[1]
           onName == \E k \in 1..NumRules : YieldsDate(k, name)
           onPath == \E k \in 1..NumRules : YieldsDate(k, path)
       IN  /\ r.err <=> (~onName /\ ~onPath)
           /\ \A k \in 1..NumRules : FirstYielding(k, name) => r.info = Rule(k, name).info
           /\ \A k \in 1..NumRules :
                 (~onName /\ FirstYielding(k, path)) => r.info = Rule(k, path).info
           /\ path = <<"i", "n", "/", "2", "0", "2", "4", "0", "3", "1", "5", "_", "v", "a", "c", "a", "t", "i", "o", "n", ".", "j", "p", "g">> => r.info = DateInfo(2024, 3, 15, <<>>)

\* C27, witness: the call has returned 2020-01-02, the date of the folder,
\* for the name 20241340.jpg, whose only match, of the rule for YYYYMMDD, has
\* the month 13.
C27_Witness ==
    /\ callResult # <<>>
    /\ callArgs.filename = <<"i", "n", "/", "2", "0", "2", "0", "-", "0", "1", "-", "0", "2", "/", "2", "0", "2", "4", "1", "3", "4", "0", ".", "j", "p", "g">>
    /\ Rule4(<<"2", "0", "2", "4", "1", "3", "4", "0">>).matched
    /\ \A k \in 1..NumRules : ~YieldsDate(k, <<"2", "0", "2", "4", "1", "3", "4", "0">>)
    /\ callResult[1] = [err |-> FALSE, info |-> DateInfo(2020, 1, 2, <<>>)]

\* C28: the rules for YYMMDD and YYMM take a year yy above 50 as 1900 + yy
\* and a year up to 50 as 2000 + yy: 51 gives 1951, 50 gives 2050, 99 gives
\* 1999, and 990615_beach.jpg gives 1999-06-15.
C28_CenturyCutover ==
    callResult # <<>> =>
       \A yy \in ShortYears : \A day \in {<<"1", "5">>, <<>>} :
          callArgs.filename = ShortName(yy, day) =>
             /\ ~callResult[1].err
             /\ callResult[1].info =
                   DateInfo(CASE yy = <<"0", "0">> -> 2000 [] yy = <<"5", "0">> -> 2050
                              [] yy = <<"5", "1">> -> 1951 [] yy = <<"9", "9">> -> 1999,
                            6, IF day = <<>> THEN 1 ELSE 15, <<>>)

\* C28, witness: the call for 500615_beach.jpg has returned 2050-06-15 from
\* the match of the rule for YYMMDD.
C28_Witness ==
    /\ callResult # <<>>
    /\ callArgs.filename = <<"i", "n", "/", "5", "0", "0", "6", "1", "5", "_", "b", "e", "a", "c", "h", ".", "j", "p", "g">>
    /\ Rule6(<<"5", "0", "0", "6", "1", "5", "_", "b", "e", "a", "c", "h">>).matched
    /\ callResult[1] = [err |-> FALSE, info |-> DateInfo(2050, 6, 15, <<>>)]

(***************************************************************************)
(* The destination paths that processPhoto computes for two files of one   *)
(* source root: names with and without a time of day, one base name at the *)
(* root and in folders whose names differ in letters, in separators, in    *)
(* depth or in nothing but a range of years, a name without a date.        *)
(***************************************************************************)
DestFiles ==
    {
     <<"i", "n", "/", "2", "0", "2", "4", "0", "3", "1", "5", "_", "v", "a", "c", "a", "t", "i", "o", "n", ".", "j", "p", "g">>,
     <<"i", "n", "/", "2", "0", "2", "4", "-", "0", "3", "-", "1", "5", " ", "1", "0", ".", "2", "0", ".", "3", "0", ".", "j", "p", "g">>,
     <<"i", "n", "/", "2", "0", "2", "4", "-", "0", "3", "-", "1", "5", " ", "1", "2", ".", "0", "0", ".", "0", "0", ".", "j", "p", "g">>,
     <<"i", "n", "/", "2", "0", "2", "4", "-", "0", "3", "-", "1", "5", "_", "x", ".", "j", "p", "g">>,
     <<"i", "n", "/", "a", "/", "2", "0", "2", "4", "-", "0", "3", "-", "1", "5", "_", "x", ".", "j", "p", "g">>,
     <<"i", "n", "/", "b", "/", "2", "0", "2", "4", "-", "0", "3", "-", "1", "5", "_", "x", ".", "j", "p", "g">>,
     <<"i", "n", "/", "a", " ", "b", "/", "2", "0", "2", "4", "-", "0", "3", "-", "1", "5", "_", "x", ".", "j", "p", "g">>,
     <<"i", "n", "/", "a", "_", "b", "/", "2", "0", "2", "4", "-", "0", "3", "-", "1", "5", "_", "x", ".", "j", "p", "g">>,
     <<"i", "n", "/", "a", "/", "b", "/", "2", "0", "2", "4", "-", "0", "3", "-", "1", "5", "_", "x", ".", "j", "p", "g">>,
     <<"i", "n", "/", "2", "0", "1", "0", "-", "2", "0", "1", "9", "/", "2", "0", "2", "4", "-", "0", "3", "-", "1", "5", "_", "x", ".", "j", "p", "g">>,
     <<"i", "n", "/", "1", "9", "8", "0", "-", "1", "9", "8", "9", "/", "2", "0", "2", "4", "-", "0", "3", "-", "1", "5", "_", "x", ".", "j", "p", "g">>,
     <<"i", "n", "/", "a", "/", "p", "h", "o", "t", "o", "_", "f", "i", "n", "a", "l", ".", "j", "p", "g">>
    }

\* processPhoto up to destPath for one file: [err, info, dest].
Destination(sourceDir, filePath) ==
    Once(ParseDateFromFilename(filePath),
         LAMBDA parsed : [err  |-> parsed.err,
                          info |-> parsed.info,
                          dest |-> IF parsed.err THEN <<>>
                                   ELSE DestPathFrom(sourceDir, filePath, parsed.info)])

InitDest ==
    /\ callArgs \in {a \in [sourceDir : {SourceDir}, files : DestFiles \X DestFiles] :
                        StrLess(a.files[1], a.files[2])}
    /\ callResult = <<>>
    /\ config = LocalConfig(1)
    /\ files = EmptyMap
    /\ mainPc = "call"
    /\ imageFiles = <<>>
    /\ destFs = [local |-> EmptyMap, remote |-> EmptyMap]
    /\ PreIdle
    /\ PoolIdle

Destinations ==
    /\ callResult = <<>>
    /\ callResult' = <<[i \in 1..2 |-> Destination(callArgs.sourceDir, callArgs.files[i])]>>
    /\ UNCHANGED <<callArgs, runVars>>

SpecDest == InitDest /\ [][Destinations]_vars

\* The description of a file in its new name: the label of its folders and
\* its base name without the extension, without a date at the front.
DescriptionOf(sourceDir, filePath) ==
    LET name    == TrimSuffix(Base(filePath), Ext(filePath))
        context == ExtractDirectoryContext(filePath, sourceDir)
        desc    == IF context = <<>> THEN name ELSE context \o <<"_">> \o name
    IN  CleanDescription(DropDigits6Underscore(DropDateLike(desc)))

\* The digits of a time of day HH:MM:SS.
HHMMSS(time) == SelectSeq(time, IsDigit)

C23_SameNameDifferentDestination ==
    callResult # <<>> =>
       ((/\ Base(callArgs.files[1]) = Base(callArgs.files[2])
         /\ Dir(callArgs.files[1]) # Dir(callArgs.files[2])
         /\ ~callResult[1][1].err
         /\ ~callResult[1][2].err)
        => callResult[1][1].dest # callResult[1][2].dest)

(***************************************************************************)
(* processPhoto on its own, for one file of a local source, on one file    *)
(* system that holds the source and the destination: destFs.local maps the *)
(* paths of both to the files there.  The source root is a folder apart     *)
(* from the destination root, the destination root itself, or a folder of  *)
(* an earlier run below it.                                                *)
(***************************************************************************)
\* What os.Create leaves at a path: a file that holds nothing.
EmptyFile == [src |-> <<>>, meta |-> NoTimestamp, whole |-> FALSE]

\* copyFile(src, dst) on the file system fs: os.Open(src); os.Create(dst),
\* which truncates a file that is there; io.Copy of what src holds by then.
copyFile(fs, src, dst) ==
    Once(Put(fs, dst, EmptyFile), LAMBDA created : Put(created, dst, created[src]))

\* The source file at path p with the capture time e.
SourceFile(p, e) == [src |-> p, meta |-> e, whole |-> TRUE]

\* The calls: the source root of the Config and the path of the file.
PhotoCalls ==
    {[sourceDir |-> SourceDir, filePath |-> <<"i", "n", "/", "2", "0", "2", "4", "_", "0", "1", "_", "a", ".", "j", "p", "g">>],
     [sourceDir |-> SourceDir, filePath |-> <<"i", "n", "/", "a", "/", "p", "h", "o", "t", "o", "_", "f", "i", "n", "a", "l", ".", "j", "p", "g">>],
     [sourceDir |-> SourceDir, filePath |-> <<"i", "n", "/", "2", "0", "2", "4", "-", "0", "1", "-", "1", "5", "_", "p", "h", "o", "t", "o", ".", "j", "p", "g">>],
     [sourceDir |-> DestDir, filePath |-> <<"o", "u", "t", "/", "2", "0", "2", "4", "/", "2", "0", "2", "4", "-", "0", "1", "/", "2", "0", "2", "4", "-", "0", "1", "-", "1", "5", "_", "p", "h", "o", "t", "o", ".", "j", "p", "g">>],
     [sourceDir |-> DestDir, filePath |-> <<"o", "u", "t", "/", "u", "n", "k", "n", "o", "w", "n", "/", "p", "h", "o", "t", "o", "_", "f", "i", "n", "a", "l", ".", "j", "p", "g">>],
     [sourceDir |-> <<"o", "u", "t", "/", "2", "0", "2", "4", "/", "2", "0", "2", "4", "-", "0", "1">>, filePath |-> <<"o", "u", "t", "/", "2", "0", "2", "4", "/", "2", "0", "2", "4", "-", "0", "1", "/", "2", "0", "2", "4", "-", "0", "1", "-", "1", "5", "_", "p", "h", "o", "t", "o", ".", "j", "p", "g">>],
     [sourceDir |-> <<"o", "u", "t", "/", "2", "0", "2", "4", "/", "2", "0", "2", "4", "-", "0", "1">>, filePath |-> <<"o", "u", "t", "/", "2", "0", "2", "4", "/", "2", "0", "2", "4", "-", "0", "1", "/", "p", "h", "o", "t", "o", "_", "f", "i", "n", "a", "l", ".", "j", "p", "g">>]}

\* The Configs of the calls: a local run in each mode, with and without
\* exiftool.
PhotoConfigs ==
    {LocalConfig(1),
     [LocalConfig(1) EXCEPT !.DryRun = TRUE],
     [LocalConfig(1) EXCEPT !.SkipExisting = TRUE],
     [LocalConfig(1) EXCEPT !.FixMetadata = TRUE],
     [LocalConfig(1) EXCEPT !.Exiftool = FALSE]}

\* The destination path of a call: the free name of the unknown bucket, or
\* the path from the date.
PhotoDest(fs, call) ==
    Once(ParseDateFromFilename(call.filePath),
         LAMBDA parsed : IF parsed.err
                         THEN FirstFree(DOMAIN fs, Base(call.filePath))
                         ELSE DestPathFrom(call.sourceDir, call.filePath, parsed.info))

InitPhoto ==
    /\ config \in PhotoConfigs
    /\ callArgs \in PhotoCalls
    /\ callResult = <<>>
    /\ files \in {[p \in {callArgs.filePath} |-> e] : e \in RunEmbedded}
    /\ \E old \in BOOLEAN :
       \E fs \in {[p \in DOMAIN files |-> SourceFile(p, files[p])]} :
       \E dest \in {PhotoDest(fs, callArgs)} :
          destFs = [local  |-> IF old /\ dest \notin DOMAIN fs THEN Put(fs, dest, OldFile) ELSE fs,
                    remote |-> EmptyMap]
    /\ mainPc = "call"
    /\ imageFiles = <<>>
    /\ PreIdle
    /\ PoolIdle

\* processPhoto(filePath), every operation succeeding: the copy to the
\* unknown bucket of a file without a date; for a file with a date the
\* destination path, the checks of FixMetadata, SkipExisting and DryRun, the
\* timestamp, copyFile and UpdateExifDate, which writes the tags of a file
\* that holds an image or a video.
ProcessPhotoCall ==
    /\ mainPc = "call"
    /\ callResult = <<>>
    /\ \E fs \in {destFs.local} : \E filePath \in {callArgs.filePath} :
       \E parsed \in {ParseDateFromFilename(filePath)} : \E undated \in {parsed.err} :
       \E dest \in {PhotoDest(fs, callArgs)} :
       \E exists \in {dest \in DOMAIN fs} :
       \E copies \in {/\ ~config.DryRun
                       /\ (undated \/ (~config.FixMetadata /\ ~(config.SkipExisting /\ exists)))} :
       \E updates \in {/\ ~undated
                        /\ ~config.DryRun
                        /\ config.Exiftool
                        /\ IF config.FixMetadata THEN exists ELSE copies} :
       \E copied \in {IF copies THEN copyFile(fs, filePath, dest) ELSE fs} :
          /\ destFs' = [destFs EXCEPT !.local =
                 IF updates /\ copied[dest].whole
                 THEN [copied EXCEPT ![dest].meta =
                          Once(DetermineCorrectTimestamp(isVideoFile(filePath),
                                                         fs[filePath].meta, parsed.info),
                               LAMBDA correct :
                                  ExifValue(IF correct[2] THEN correct[1]
                                            ELSE GetSequentialTimestamp(timestampAssignments,
                                                                        filePath, correct[1])))]
                 ELSE copied]
          /\ callResult' = <<[dest |-> dest, copies |-> copies, updates |-> updates]>>
    /\ UNCHANGED <<config, files, mainPc, imageFiles, preVars, stats, statsMutex, chanVars,
                   workers, faults, histVars, callArgs>>

SpecPhoto == InitPhoto /\ [][ProcessPhotoCall]_vars

\* C19: after processPhoto every source file is where it was and holds what
\* it held before: the content and the capture time it had.
C19_SourceFilesKeepContent ==
    callResult # <<>> =>
       \A p \in DOMAIN files :
          /\ p \in DOMAIN destFs.local
          /\ destFs.local[p] = SourceFile(p, files[p])

(***************************************************************************)
(* Properties of the totals, of the destination of the writes and of the   *)
(* comparison of the sort.                                                 *)
(***************************************************************************)
\* C33: with one worker, in every mode, when the run has completed each
\* candidate has been counted by exactly one of ProcessedFiles, SkippedFiles
\* and ErrorFiles, and the three counters add up to TotalFiles.
C33_EveryFileCountedOnce ==
    (mainPc = "done" /\ config.Workers = 1) =>
       /\ \A p \in Range(imageFiles) :
             TimesCounted(p, "ProcessedFiles") + TimesCounted(p, "SkippedFiles")
                + (IF p \in DOMAIN returned /\ returned[p] THEN 1 ELSE 0) = 1
       /\ stats.ProcessedFiles + stats.SkippedFiles + stats.ErrorFiles = stats.TotalFiles

\* C34: when a run that is not in fix-metadata mode has completed,
\* UpdatedMetadata is at most MovedFiles, with a local and with a remote
\* source, also when transfers have failed.
C34_MetadataAtMostTransferred ==
    (mainPc = "done" /\ ~config.FixMetadata) => stats.UpdatedMetadata <= stats.MovedFiles

\* C37: with RemoteDest set no step of the run writes to the local
\* filesystem below the destination directory, and every file that has been
\* copied lies at its path on the remote destination, with a remote and with
\* a local source.
C37_RemoteDestWritesRemoteOnly ==
    /\ [][config.RemoteDest => destFs'.local = destFs.local]_vars
    /\ [](config.RemoteDest => \A p \in DOMAIN copiedTo : copiedTo[p] \in DOMAIN destFs.remote)

\* C35: once the pre-pass has returned, timestampAssignments has an entry for
\* a candidate exactly when ParseDateFromFilename succeeds on it, and a worker
\* that is about to call GetSequentialTimestamp holds a path with an entry:
\* the base timestamp is never what comes back.
C35_EntryExactlyForDatedPaths ==
    /\ mainPc \in {"spawn", "done"} \cup Collecting =>
          DOMAIN timestampAssignments = {p \in Range(imageFiles) : ~dateOf[p].err}
    /\ \A w \in 1..MaxWorkers :
          workers[w].pc = "read" => workers[w].path \in DOMAIN timestampAssignments

\* C35, witness: the run has completed over a candidate without a date and a
\* candidate with a date whose metadata gave the worker no timestamp, so that
\* the worker took its timestamp from GetSequentialTimestamp and wrote it.
C35_Witness ==
    /\ mainPc = "done"
    /\ \E q \in Range(imageFiles) : dateOf[q].err /\ q \notin DOMAIN timestampAssignments
    /\ \E p \in DOMAIN exifWritten :
          /\ ~workerRead[p].has
          /\ exifWritten[p] = timestampAssignments[p]

\* C36: on the paths of the list naturalLess is a strict weak order: no path
\* is less than itself, no two paths are less than each other, less is
\* transitive, and so is being incomparable.
C36_StrictWeakOrder ==
    LET P == Range(imageFiles)
        less(a, b) == a \in lessThan[b]
        incomparable(a, b) == ~less(a, b) /\ ~less(b, a)
    IN  /\ \A a \in P : ~less(a, a)
        /\ \A a, b \in P : less(a, b) => ~less(b, a)
        /\ \A a, b, c \in P : (less(a, b) /\ less(b, c)) => less(a, c)
        /\ \A a, b, c \in P : (incomparable(a, b) /\ incomparable(b, c)) => incomparable(a, c)

(***************************************************************************)
(* Properties of the pool: termination, the jobs, the results.             *)
(***************************************************************************)
\* C31: with one worker or more the run comes to its end; no path is received
\* from jobs twice and no path is held by two workers; and when the run has
\* completed every candidate has been received once, the function has
\* returned for it, and the collecting loop has received as many results as
\* there are candidates.
C31_TerminatesEachPathOnce ==
    /\ <>(config.Workers >= 1 => mainPc \in {"done", "failed"})
    /\ [](\A p \in DOMAIN jobsTaken : jobsTaken[p] = 1 /\ p \in Range(imageFiles))
    /\ [](\A v, w \in 1..MaxWorkers :
             (v # w /\ workers[v].pc \notin {"off", "idle", "exited"}
                    /\ workers[w].pc \notin {"off", "idle", "exited"})
                => workers[v].path # workers[w].path)
    /\ []((mainPc = "done" /\ config.Workers >= 1) =>
             /\ DOMAIN jobsTaken = Range(imageFiles)
             /\ DOMAIN returned = Range(imageFiles)
             /\ jobs = <<>>
             /\ collected = Len(imageFiles))

\* C31, witness: a run with two workers has completed over two candidates.
C31_Witness ==
    /\ mainPc = "done"
    /\ config.Workers = 2
    /\ Len(imageFiles) = 2
    /\ collected = 2
    /\ \A p \in Range(imageFiles) : TimesTaken(p) = 1

\* C32: with a worker count of 0 or below the run that has enumerated its
\* candidates completes without an error; no worker receives a path, the five
\* counters stay 0, and TotalFiles is the number of candidates.
C32_NoWorkersNothingProcessed ==
    /\ (config.Workers <= 0 /\ mainPc = "enumerated") ~> (mainPc = "done")
    /\ []((config.Workers <= 0 /\ mainPc \notin {"start", "walk", "failed"}) =>
             /\ \A c \in Counters : stats[c] = 0 /\ increments[c] = 0
             /\ stats.TotalFiles = Len(imageFiles)
             /\ jobsTaken = EmptyMap
             /\ returned = EmptyMap
             /\ collected = 0
             /\ destFs \in RunDests)

\* C32, witness: a run with a negative worker count has completed over two
\* candidates, which lie in jobs.
C32_Witness ==
    /\ mainPc = "done"
    /\ config.Workers < 0
    /\ Len(imageFiles) = 2
    /\ jobs = imageFiles
    /\ stats.TotalFiles = 2

\* C38: results is closed only when every worker has returned; no result is
\* sent after the close; a send finds room in the channel, whose capacity is
\* the number of candidates, so that no worker waits in it; and the collecting
\* loop ends only with results closed and empty, having received the result
\* of every path the function has returned for; a run that starts its pool
\* comes to the end of the loop with every worker returned.
C38_ResultsClosedAfterWorkers ==
    /\ [](resultsClosed => \A w \in 1..MaxWorkers : workers[w].pc \in {"off", "exited"})
    /\ [][resultsClosed => Len(results') <= Len(results)]_vars
    /\ [](Len(results) <= Len(imageFiles))
    /\ [](collected + Len(results) = Cardinality(DOMAIN returned))
    /\ [](mainPc = "done" =>
             /\ resultsClosed
             /\ results = <<>>
             /\ collected = Cardinality(DOMAIN returned))
    /\ <>(\/ mainPc = "failed"
          \/ /\ mainPc = "done"
             /\ \A w \in 1..MaxWorkers : workers[w].pc \in {"off", "exited"})

\* C38, witness: results has been closed with both workers returned, and the
\* loop has ended with the two results received, one of them an error.
C38_Witness ==
    /\ mainPc = "done"
    /\ resultsClosed
    /\ config.Workers = 2
    /\ \A w \in 1..MaxWorkers : workers[w].pc = "exited"
    /\ collected = 2
    /\ \E p \in DOMAIN returned : returned[p]

====
